---- MODULE Spec2Model ----
(***************************************************************************)
(* Model of the hybrid (memory + disk) cache of foxy-mcp:                  *)
(* services/cache.service.ts (class CacheService), the persisted 'cache'   *)
(* section of the conf document it shares with storage.service.ts, and the *)
(* Node event loop pieces it relies on (setImmediate, setInterval).        *)
(* With it: the refresh-cache tool (core/server.ts, ApifoxService), and   *)
(* the 'mockDataPool' section of the document with DataPoolService and    *)
(* the clear functions of storage.service.ts.  And the SSE endpoints of   *)
(* the HTTP transport (class HttpServer).                                  *)
(*                                                                         *)
(* Strings are sequences of one-character strings, so that template        *)
(* literals, trim(), toLowerCase(), toUpperCase(), startsWith() and        *)
(* includes() are computed as the code computes them.                      *)
(***************************************************************************)
EXTENDS Integers, Sequences, FiniteSets, TLC

\* ------------------------------------------------------------------ bounds

\* options.ttl of the modelled configurations, in model time units.
Ttl == 1
\* Date.now() ranges over 0..MaxTime.
MaxTime == 2
\* The process is restarted at most MaxRestarts times.
MaxRestarts == 1
\* The lifecycle specification (Spec): options.maxSize, the number of
\* setImmediate callbacks queued at once, and the sum the lookup counters of
\* one instance may reach before the clients stop asking.
CoreMaxSize == 1
CoreImmediates == 2
CoreLookups == 1
\* The same for the eviction specification (SpecLru).
LruMaxSize == 2
LruImmediates == 3
LruLookups == 2
\* The same for the index lookup specification (SpecFind).
FindMaxSize == 1
FindImmediates == 1
FindLookups == 3
\* The same for the failing disk specification (SpecFaults).
FaultsMaxSize == 1
FaultsImmediates == 2
\* The same for the disk size specification (SpecDisk); PersistentMaxSize
\* is the persistentMaxSize option its instances are constructed with.
PersistentMaxSize == 1
DiskMaxSize == 1
DiskImmediates == 1
\* The same for the modes specification (SpecModes).
ModesMaxSize == 1
ModesImmediates == 2
ModesLookups == 1
\* The same for the cache management specification (SpecClear).
ClearMaxSize == 2
ClearImmediates == 2
\* The same for the shutdown specification (SpecShutdown).
ShutdownMaxSize == 1
ShutdownImmediates == 2
\* The same for the refresh specification (SpecRefresh).
RefreshMaxSize == 2
RefreshImmediates == 1
RefreshLookups == 4
\* options.maxSize of the data pool specification (SpecPool).
PoolMaxSize == 1
\* options.maxSize and the setImmediate callbacks queued at once of the
\* specification of the two sections (SpecSections).
SectionsMaxSize == 1
SectionsImmediates == 1
\* The same for the specification of replaced entries (SpecIndex).
IndexMaxSize == 1
IndexImmediates == 1
IndexLookups == 1
\* The same for the specification of clearProject (SpecReset).
ResetMaxSize == 2
ResetImmediates == 1
ResetLookups == 1
\* The HTTP transport (SpecSse): the number of SSE connections opened in
\* all, and the sizes of its cache configuration.
MaxClients == 3
SseMaxSize == 1

\* ----------------------------------------------------------------- strings

UpperCaseLetters == <<"A", "B", "C", "D", "E", "F", "G", "H", "I", "J", "K", "L", "M",
                      "N", "O", "P", "Q", "R", "S", "T", "U", "V", "W", "X", "Y", "Z">>
LowerCaseLetters == <<"a", "b", "c", "d", "e", "f", "g", "h", "i", "j", "k", "l", "m",
                      "n", "o", "p", "q", "r", "s", "t", "u", "v", "w", "x", "y", "z">>
Digits == <<"0", "1", "2", "3", "4", "5", "6", "7", "8", "9">>

LowerChar(c) ==
  IF \E i \in 1..26 : UpperCaseLetters[i] = c
  THEN LowerCaseLetters[CHOOSE i \in 1..26 : UpperCaseLetters[i] = c]
  ELSE c

UpperChar(c) ==
  IF \E i \in 1..26 : LowerCaseLetters[i] = c
  THEN UpperCaseLetters[CHOOSE i \in 1..26 : LowerCaseLetters[i] = c]
  ELSE c

\* String.prototype.toLowerCase / toUpperCase
toLowerCase(s) == [i \in 1..Len(s) |-> LowerChar(s[i])]
toUpperCase(s) == [i \in 1..Len(s) |-> UpperChar(s[i])]

\* String.prototype.trim
trim(s) ==
  LET solid == {i \in 1..Len(s) : s[i] # " "}
  IN  IF solid = {} THEN <<>>
      ELSE LET lo == CHOOSE i \in solid : \A j \in solid : i <= j
               hi == CHOOSE i \in solid : \A j \in solid : j <= i
           IN  SubSeq(s, lo, hi)

\* String.prototype.startsWith
startsWith(s, prefix) ==
  /\ Len(prefix) <= Len(s)
  /\ SubSeq(s, 1, Len(prefix)) = prefix

\* String.prototype.includes
includes(s, sub) ==
  \E i \in 0..(Len(s) - Len(sub)) : SubSeq(s, i + 1, i + Len(sub)) = sub

\* `${n}` of a non-negative integer
RECURSIVE NumberToString(_)
NumberToString(n) ==
  IF n < 10 THEN <<Digits[n + 1]>>
  ELSE NumberToString(n \div 10) \o <<Digits[(n % 10) + 1]>>

\* Number(s) of a string of decimal digits
RECURSIVE StringToNumber(_)
StringToNumber(s) ==
  IF s = <<>> THEN 0
  ELSE 10 * StringToNumber(SubSeq(s, 1, Len(s) - 1))
       + ((CHOOSE i \in 1..10 : Digits[i] = s[Len(s)]) - 1)

\* -------------------------------------------------------------- cache keys

\* crypto.createHash('md5').update(url).digest('hex').substring(0, 16): the
\* digest is not computed here; each modelled URL gets the fingerprint below
\* (distinct URLs of the model get distinct fingerprints).
Md5Hex16(url) == <<"#">> \o url

getApiKey(projectId, apiId) ==
  <<"a", "p", "i", ":">> \o projectId \o <<":">> \o NumberToString(apiId)

getUrlKey(url) == <<"u", "r", "l", ":">> \o Md5Hex16(url)

\* a name key that keeps the name as it was given
getNameKey_Verbatim(projectId, name) ==
  <<"n", "a", "m", "e", ":">> \o projectId \o <<":">> \o name

getNameKey(projectId, name) ==
  <<"n", "a", "m", "e", ":">> \o projectId \o <<":">> \o toLowerCase(trim(name))

getPathKey(projectId, method, path) ==
  <<"p", "a", "t", "h", ":">> \o projectId \o <<":">> \o toUpperCase(method) \o <<":">> \o path

\* ------------------------------------------------------- LRUCache (lru-cache)
\* An LRUCache is a sequence of items [key, value, start], least recently used
\* first. start is the time the item's ttl is counted from.

Undefined == [undefined |-> TRUE]

LruIndex(c, k) ==
  IF \E i \in 1..Len(c) : c[i].key = k
  THEN CHOOSE i \in 1..Len(c) : c[i].key = k
  ELSE 0

LruRemoveAt(c, i) == SubSeq(c, 1, i - 1) \o SubSeq(c, i + 1, Len(c))

\* an item whose ttl has run out (lru-cache: now - start > ttl)
LruIsStale(item, t) == t - item.start > Ttl

\* LRUCache.get that leaves the recency order and the age alone
LruGet_NoTouch(c, k, t) ==
  LET i == LruIndex(c, k)
  IN  IF i = 0 THEN [value |-> Undefined, cache |-> c]
      ELSE IF LruIsStale(c[i], t)
           THEN [value |-> Undefined, cache |-> LruRemoveAt(c, i)]
           ELSE [value |-> c[i].value, cache |-> c]

\* LRUCache.get with updateAgeOnGet: a stale item is deleted and undefined is
\* returned; a live item becomes the most recently used and its age restarts.
LruGet(c, k, t) ==
  LET i == LruIndex(c, k)
  IN  IF i = 0 THEN [value |-> Undefined, cache |-> c]
      ELSE IF LruIsStale(c[i], t)
           THEN [value |-> Undefined, cache |-> LruRemoveAt(c, i)]
           ELSE [value |-> c[i].value,
                 cache |-> Append(LruRemoveAt(c, i), [c[i] EXCEPT !.start = t])]

\* LRUCache.set of a cache that evicts the most recently used item
LruSet_EvictNewest(c, k, v, max, t) ==
  LET i    == LruIndex(c, k)
      item == [key |-> k, value |-> v, start |-> t]
  IN  IF i # 0 THEN Append(LruRemoveAt(c, i), item)
      ELSE IF Len(c) >= max THEN Append(SubSeq(c, 1, Len(c) - 1), item)
           ELSE Append(c, item)

\* LRUCache.set of a cache that never evicts
LruSet_NoEvict(c, k, v, max, t) ==
  LET i    == LruIndex(c, k)
      item == [key |-> k, value |-> v, start |-> t]
  IN  IF i # 0 THEN Append(LruRemoveAt(c, i), item) ELSE Append(c, item)

\* LRUCache.set: replaces or inserts as most recently used, evicting the
\* least recently used item when the cache holds max items.
LruSet(c, k, v, max, t) ==
  LET i    == LruIndex(c, k)
      item == [key |-> k, value |-> v, start |-> t]
  IN  IF i # 0 THEN Append(LruRemoveAt(c, i), item)
      ELSE IF Len(c) >= max THEN Append(Tail(c), item)
           ELSE Append(c, item)

\* LRUCache.delete
LruDelete(c, k) ==
  LET i == LruIndex(c, k) IN IF i = 0 THEN c ELSE LruRemoveAt(c, i)

\* LRUCache.keys() / entries(): most recently used first, stale items skipped
LruLiveItems(c, t) ==
  LET live == SelectSeq(c, LAMBDA item : ~LruIsStale(item, t))
  IN  [i \in 1..Len(live) |-> live[Len(live) + 1 - i]]

LruKeys(c) == {c[i].key : i \in 1..Len(c)}

\* ------------------------------------------------------- JS objects (maps)
\* A Record<string, V> whose iteration order matters (cache.apis) is a
\* sequence of [key, value] pairs in insertion order.

ObjIndex(o, k) ==
  IF \E i \in 1..Len(o) : o[i].key = k
  THEN CHOOSE i \in 1..Len(o) : o[i].key = k
  ELSE 0

ObjHas(o, k) == ObjIndex(o, k) # 0

\* o[k]
ObjGet(o, k) == IF ObjHas(o, k) THEN o[ObjIndex(o, k)].value ELSE Undefined

\* o[k] = v
ObjSet(o, k, v) ==
  IF ObjHas(o, k) THEN [o EXCEPT ![ObjIndex(o, k)].value = v]
  ELSE Append(o, [key |-> k, value |-> v])

\* delete o[k]
ObjDelete(o, k) ==
  IF ObjHas(o, k) THEN LruRemoveAt(o, ObjIndex(o, k)) ELSE o

ObjKeys(o) == {o[i].key : i \in 1..Len(o)}

\* An index map (urlIndex, nameIndex, pathIndex of the document) is never
\* iterated: it is a function from its keys to ApiIndexEntry values.
EmptyMap == [k \in {} |-> Undefined]

MapGet(m, k) == IF k \in DOMAIN m THEN m[k] ELSE Undefined

MapSet(m, k, v) == [x \in DOMAIN m \cup {k} |-> IF x = k THEN v ELSE m[x]]

MapDelete(m, k) == [x \in DOMAIN m \ {k} |-> m[x]]

\* ------------------------------------------------------------- the entries

\* isExpired: age = Date.now() - cachedAt; age > ttl
\* isExpired with a grace period of one time unit
isExpired_Late(entry, t) == t - entry.metadata.cachedAt > Ttl + 1

isExpired(entry, t) == t - entry.metadata.cachedAt > Ttl

\* ApiIndexEntry
IndexEntry(projectId, apiId) == [projectId |-> projectId, apiId |-> apiId]

\* The 'cache' section of a fresh document (the defaults of the conf store).
EmptyCacheData ==
  [apis |-> <<>>, urlIndex |-> EmptyMap, nameIndex |-> EmptyMap, pathIndex |-> EmptyMap]

\* The stats of a new instance.
ZeroStats ==
  [memory |-> [hits |-> 0, misses |-> 0], persistent |-> [hits |-> 0, misses |-> 0]]

\* --------------------------------------------------- CacheService: disk sync
\* The operators below take the instance's fields (s), the persisted 'cache'
\* section (d) and Date.now() (t), and return the fields and section they
\* leave behind. fault names the persistentStore.set call that throws during
\* the call: "none", "apis" (the write of the entries map) or "indexes" (the
\* write of the index maps).

Faults == {"none", "apis", "indexes", "read"}

SetAdd(q, k) == IF \E i \in 1..Len(q) : q[i] = k THEN q ELSE Append(q, k)

SetDelete(q, k) == SelectSeq(q, LAMBDA x : x # k)

syncIndexesToDisk(s, d, entry, fault) ==
  LET m == entry.metadata
      ix == IndexEntry(m.projectId, m.apiId)
  IN  IF ~s.persistentStore \/ fault \in {"indexes", "read"} THEN d
      ELSE [d EXCEPT
             !.urlIndex = IF m.url # <<>> THEN MapSet(@, getUrlKey(m.url), ix) ELSE @,
             !.nameIndex = MapSet(@, getNameKey(m.projectId, m.name), ix),
             !.pathIndex = MapSet(@, getPathKey(m.projectId, m.method, m.path), ix)]

syncToDisk(s, d, key, entry, fault) ==
  IF ~s.persistentStore \/ fault \in {"apis", "read"} THEN [svc |-> s, store |-> d]
  ELSE [svc |-> [s EXCEPT !.dirtyKeys = SetDelete(@, key)],
        store |-> syncIndexesToDisk(s, [d EXCEPT !.apis = ObjSet(@, key, entry)],
                                    entry, fault)]

\* a removeFromDisk that leaves the entry in the document
removeFromDisk_KeepsEntry(s, d, key, fault) == d

removeFromDisk(s, d, key, fault) ==
  IF ~s.persistentStore \/ fault \in {"apis", "read"} THEN d
  ELSE [d EXCEPT !.apis = ObjDelete(@, key)]

\* a cleanup pass that removes nothing
cleanupExpiredDiskCache_KeepsAll(s, d, t, fault) == d

cleanupExpiredDiskCache(s, d, t, fault) ==
  IF ~s.persistentStore \/ fault \in {"apis", "read"} THEN d
  ELSE [d EXCEPT !.apis = SelectSeq(@, LAMBDA kv : ~isExpired(kv.value, t))]

\* the body of loadFromDisk's loop over Object.entries(cache.apis)
RECURSIVE LoadEntries(_, _, _, _)
LoadEntries(mem, max, apis, t) ==
  IF apis = <<>> THEN mem
  ELSE LET kv == Head(apis)
       IN  IF isExpired(kv.value, t) THEN LoadEntries(mem, max, Tail(apis), t)
           ELSE IF 2 * Len(mem) < max
                THEN LoadEntries(LruSet(mem, kv.key, kv.value, max, t), max, Tail(apis), t)
                ELSE LoadEntries(mem, max, Tail(apis), t)

loadFromDisk(s, d, t, fault) ==
  IF ~s.persistentStore \/ fault = "read" THEN [svc |-> s, store |-> d]
  ELSE [svc |-> [s EXCEPT !.memoryCache = LoadEntries(@, s.max, d.apis, t)],
        store |-> IF \E i \in 1..Len(d.apis) : isExpired(d.apis[i].value, t)
                  THEN cleanupExpiredDiskCache(s, d, t, fault)
                  ELSE d]

\* new CacheService(options) over the document section d; max is
\* memoryCache.max (options.maxSize), indexMax the max of the three indexes.
\* With fault "storage" getStorageInstance() throws: the catch block turns
\* persistence off before loadFromDisk and startSyncTimer were reached.
\* options keeps what the caller asked for (getCacheOptions).

\* a constructor whose catch block leaves persistence on
Construct_IgnoresStorageFailure(enabled, persistent, maxSize, d, t, fault) ==
  LET s0 == [enabled |-> enabled,
             options |-> [persistent |-> persistent],
             max |-> maxSize,
             indexMax |-> maxSize * 2,
             persistentEnabled |-> persistent,
             persistentStore |-> persistent,
             syncTimer |-> persistent,
             memoryCache |-> <<>>,
             urlIndex |-> <<>>,
             nameIndex |-> <<>>,
             pathIndex |-> <<>>,
             dirtyKeys |-> <<>>,
             stats |-> ZeroStats]
  IN  loadFromDisk(s0, d, t, fault)

Construct(enabled, persistent, maxSize, d, t, fault) ==
  LET stored == persistent /\ fault # "storage"
      s0 == [enabled |-> enabled,
             options |-> [persistent |-> persistent],
             max |-> maxSize,
             indexMax |-> maxSize * 2,
             persistentEnabled |-> stored,
             persistentStore |-> stored,
             syncTimer |-> stored,
             memoryCache |-> <<>>,
             urlIndex |-> <<>>,
             nameIndex |-> <<>>,
             pathIndex |-> <<>>,
             dirtyKeys |-> <<>>,
             stats |-> ZeroStats]
  IN  loadFromDisk(s0, d, t, fault)

\* ------------------------------------------------------ CacheService: setApi

\* setApi that leaves the path index alone
setApi_NoPathIndex(s, entry, t) ==
  IF ~s.enabled THEN s
  ELSE LET m  == entry.metadata
           ix == IndexEntry(m.projectId, m.apiId)
           mainKey == getApiKey(m.projectId, m.apiId)
       IN  [s EXCEPT
             !.memoryCache = LruSet(@, mainKey, entry, s.max, t),
             !.dirtyKeys = SetAdd(@, mainKey),
             !.urlIndex = IF m.url # <<>>
                          THEN LruSet(@, getUrlKey(m.url), ix, s.indexMax, t)
                          ELSE @,
             !.nameIndex = LruSet(@, getNameKey(m.projectId, m.name), ix,
                                  s.indexMax, t)]

setApi(s, entry, t) ==
  IF ~s.enabled THEN s
  ELSE LET m  == entry.metadata
           ix == IndexEntry(m.projectId, m.apiId)
           mainKey == getApiKey(m.projectId, m.apiId)
       IN  [s EXCEPT
             !.memoryCache = LruSet(@, mainKey, entry, s.max, t),
             !.dirtyKeys = SetAdd(@, mainKey),
             !.urlIndex = IF m.url # <<>>
                          THEN LruSet(@, getUrlKey(m.url), ix, s.indexMax, t)
                          ELSE @,
             !.nameIndex = LruSet(@, getNameKey(m.projectId, m.name), ix,
                                  s.indexMax, t),
             !.pathIndex = LruSet(@, getPathKey(m.projectId, m.method, m.path), ix,
                                  s.indexMax, t)]

\* setApi's step 5: whether it queues setImmediate(() => syncToDisk(...))
setApiSchedules(s) == s.enabled /\ s.persistentEnabled /\ s.persistentStore

\* ----------------------------------------------------- CacheService: lookups
\* A lookup returns [svc, store, result]; result is Undefined or
\* [entry, source].

Hit(entry, source) == [entry |-> entry, source |-> source]

MemoryHits(st) == [st EXCEPT !.memory.hits = @ + 1]
\* a miss that is not counted
MemoryMisses_NotCounted(st) == st

MemoryMisses(st) == [st EXCEPT !.memory.misses = @ + 1]
PersistentHits(st) == [st EXCEPT !.persistent.hits = @ + 1]

\* getApiInternal that reads the Disk Tier first and the Memory Tier never
getApiInternal_DiskOnly(s, d, t, projectId, apiId, fault) ==
  LET onDisk == ObjGet(d.apis, getApiKey(projectId, apiId))
  IN  IF s.persistentEnabled /\ s.persistentStore /\ onDisk # Undefined /\ ~isExpired(onDisk, t)
      THEN [svc |-> [s EXCEPT !.stats = PersistentHits(@)], store |-> d,
            result |-> Hit(onDisk, "disk"), threw |-> FALSE]
      ELSE [svc |-> [s EXCEPT !.stats = MemoryMisses(@)], store |-> d, result |-> Undefined, threw |-> FALSE]

\* getApiInternal that never reads the Disk Tier
getApiInternal_MemoryOnly(s, d, t, projectId, apiId, fault) ==
  LET key == getApiKey(projectId, apiId)
      got == LruGet(s.memoryCache, key, t)
      s1  == [s EXCEPT !.memoryCache = got.cache]
  IN  IF got.value # Undefined /\ ~isExpired(got.value, t)
      THEN [svc |-> [s1 EXCEPT !.stats = MemoryHits(@)], store |-> d,
            result |-> Hit(got.value, "memory"), threw |-> FALSE]
      ELSE [svc |-> [s1 EXCEPT !.stats = MemoryMisses(@)], store |-> d, result |-> Undefined, threw |-> FALSE]

getApiInternal(s, d, t, projectId, apiId, fault) ==
  LET key == getApiKey(projectId, apiId)
      got == LruGet(s.memoryCache, key, t)
      s1  == [s EXCEPT !.memoryCache = got.cache]
      onDisk == ObjGet(d.apis, key)
  IN  IF got.value # Undefined /\ ~isExpired(got.value, t)
      THEN [svc |-> [s1 EXCEPT !.stats = MemoryHits(@)], store |-> d,
            result |-> Hit(got.value, "memory"), threw |-> FALSE]
      ELSE IF s.persistentEnabled /\ s.persistentStore /\ fault = "read"
      THEN \* persistentStore.get('cache') throws, outside any try block
           [svc |-> s1, store |-> d, result |-> Undefined, threw |-> TRUE]
      ELSE IF s.persistentEnabled /\ s.persistentStore /\ onDisk # Undefined
           THEN IF ~isExpired(onDisk, t)
                THEN [svc |-> [s1 EXCEPT
                                !.stats = PersistentHits(@),
                                !.memoryCache = LruSet(@, key, onDisk, s.max, t)],
                      store |-> d,
                      result |-> Hit(onDisk, "disk"), threw |-> FALSE]
                ELSE [svc |-> [s1 EXCEPT !.stats = MemoryMisses(@)],
                      store |-> removeFromDisk(s, d, key, fault),
                      result |-> Undefined, threw |-> FALSE]
           ELSE [svc |-> [s1 EXCEPT !.stats = MemoryMisses(@)], store |-> d,
                 result |-> Undefined, threw |-> FALSE]

getApi(s, d, t, projectId, apiId, fault) ==
  IF ~s.enabled THEN [svc |-> s, store |-> d, result |-> Undefined, threw |-> FALSE]
  ELSE getApiInternal(s, d, t, projectId, apiId, fault)


\* the first steps of findByUrl / findByName / findByPath / clearByUrl: the
\* memory index, then the disk index map with back-fill of the memory index.
\* which is "urlIndex", "nameIndex" or "pathIndex"; backfill is FALSE for
\* clearByUrl, which neither counts the disk hit nor back-fills.
ResolveIndex(s, d, t, which, ikey, backfill, fault) ==
  LET got == LruGet(s[which], ikey, t)
      s1  == [s EXCEPT ![which] = got.cache]
      onDisk == MapGet(d[which], ikey)
  IN  IF got.value # Undefined THEN [svc |-> s1, index |-> got.value, threw |-> FALSE]
      ELSE IF s.persistentEnabled /\ s.persistentStore /\ fault = "read"
      THEN \* persistentStore.get('cache') throws, outside any try block
           [svc |-> s1, index |-> Undefined, threw |-> TRUE]
      ELSE IF s.persistentEnabled /\ s.persistentStore /\ onDisk # Undefined
           THEN [svc |-> IF backfill
                         THEN [s1 EXCEPT
                                !.stats = PersistentHits(@),
                                ![which] = LruSet(@, ikey, onDisk, s.indexMax, t)]
                         ELSE s1,
                 index |-> onDisk, threw |-> FALSE]
           ELSE [svc |-> s1, index |-> Undefined, threw |-> FALSE]

\* findByUrl that does not copy an index entry found on disk into memory
findByUrl_NoBackfill(s, d, t, url, fault) ==
  IF ~s.enabled THEN [svc |-> s, store |-> d, result |-> Undefined, threw |-> FALSE]
  ELSE LET r == ResolveIndex(s, d, t, "urlIndex", getUrlKey(url), FALSE, fault)
       IN  IF r.threw THEN [svc |-> r.svc, store |-> d, result |-> Undefined, threw |-> TRUE]
           ELSE IF r.index = Undefined
           THEN [svc |-> [r.svc EXCEPT !.stats = MemoryMisses(@)], store |-> d,
                 result |-> Undefined, threw |-> FALSE]
           ELSE getApiInternal(r.svc, d, t, r.index.projectId, r.index.apiId, fault)

findByUrl(s, d, t, url, fault) ==
  IF ~s.enabled THEN [svc |-> s, store |-> d, result |-> Undefined, threw |-> FALSE]
  ELSE LET r == ResolveIndex(s, d, t, "urlIndex", getUrlKey(url), TRUE, fault)
       IN  IF r.threw THEN [svc |-> r.svc, store |-> d, result |-> Undefined, threw |-> TRUE]
           ELSE IF r.index = Undefined
           THEN [svc |-> [r.svc EXCEPT !.stats = MemoryMisses(@)], store |-> d,
                 result |-> Undefined, threw |-> FALSE]
           ELSE getApiInternal(r.svc, d, t, r.index.projectId, r.index.apiId, fault)

\* fuzzySearchByName that compares the keyword with the names only
fuzzySearchByName_NameOnly(s, t, projectId, keyword) ==
  LET lowerKeyword == trim(toLowerCase(keyword))
      prefix == <<"a", "p", "i", ":">> \o projectId \o <<":">>
      items == LruLiveItems(s.memoryCache, t)
      match(i) ==
        /\ startsWith(items[i].key, prefix)
        /\ includes(toLowerCase(items[i].value.metadata.name), lowerKeyword)
      found == {i \in 1..Len(items) : match(i)}
  IN  IF found = {} THEN Undefined
      ELSE items[CHOOSE i \in found : \A j \in found : i <= j].value

fuzzySearchByName(s, t, projectId, keyword) ==
  LET lowerKeyword == trim(toLowerCase(keyword))
      prefix == <<"a", "p", "i", ":">> \o projectId \o <<":">>
      items == LruLiveItems(s.memoryCache, t)
      match(i) ==
        /\ startsWith(items[i].key, prefix)
        /\ \/ includes(toLowerCase(items[i].value.metadata.name), lowerKeyword)
           \/ includes(toLowerCase(items[i].value.metadata.path), lowerKeyword)
      found == {i \in 1..Len(items) : match(i)}
  IN  IF found = {} THEN Undefined
      ELSE items[CHOOSE i \in found : \A j \in found : i <= j].value

findByName(s, d, t, projectId, name, fault) ==
  IF ~s.enabled THEN [svc |-> s, store |-> d, result |-> Undefined, threw |-> FALSE]
  ELSE LET r == ResolveIndex(s, d, t, "nameIndex", getNameKey(projectId, name), TRUE, fault)
           exact == IF r.index = Undefined
                    THEN [svc |-> r.svc, store |-> d, result |-> Undefined, threw |-> r.threw]
                    ELSE getApiInternal(r.svc, d, t, projectId, r.index.apiId, fault)
           fuzzyResult == fuzzySearchByName(exact.svc, t, projectId, name)
       IN  IF exact.result # Undefined \/ exact.threw THEN exact
           ELSE IF fuzzyResult # Undefined
                THEN [svc |-> [exact.svc EXCEPT !.stats = MemoryHits(@)],
                      store |-> exact.store,
                      result |-> Hit(fuzzyResult, "memory"), threw |-> FALSE]
                ELSE [svc |-> [exact.svc EXCEPT !.stats = MemoryMisses(@)],
                      store |-> exact.store,
                      result |-> Undefined, threw |-> FALSE]

findByPath(s, d, t, projectId, method, path, fault) ==
  IF ~s.enabled THEN [svc |-> s, store |-> d, result |-> Undefined, threw |-> FALSE]
  ELSE LET r == ResolveIndex(s, d, t, "pathIndex", getPathKey(projectId, method, path), TRUE,
                              fault)
       IN  IF r.threw THEN [svc |-> r.svc, store |-> d, result |-> Undefined, threw |-> TRUE]
           ELSE IF r.index = Undefined
           THEN [svc |-> [r.svc EXCEPT !.stats = MemoryMisses(@)], store |-> d,
                 result |-> Undefined, threw |-> FALSE]
           ELSE getApiInternal(r.svc, d, t, projectId, r.index.apiId, fault)

\* --------------------------------------------- CacheService: cache management
\* A management call returns [svc, store, result, threw]; threw says that a
\* persistentStore.set outside any try block threw, which ends the call there.

clear(s, d, fault) ==
  LET s1 == [s EXCEPT !.memoryCache = <<>>, !.urlIndex = <<>>,
                      !.nameIndex = <<>>, !.pathIndex = <<>>]
  IN  IF s.persistentStore /\ fault # "none"
      THEN [svc |-> s1, store |-> d, result |-> Undefined, threw |-> TRUE]
      ELSE [svc |-> [s1 EXCEPT !.stats = ZeroStats],
            store |-> IF s.persistentStore THEN EmptyCacheData ELSE d,
            result |-> Undefined, threw |-> FALSE]

clearProject(s, d, t, projectId, fault) ==
  LET prefix == <<"a", "p", "i", ":">> \o projectId \o <<":">>
      keys == LruLiveItems(s.memoryCache, t)
      hit == {i \in 1..Len(keys) : startsWith(keys[i].key, prefix)}
      s1 == [s EXCEPT !.memoryCache =
               SelectSeq(@, LAMBDA item : ~(/\ ~LruIsStale(item, t)
                                            /\ startsWith(item.key, prefix)))]
      d1 == [d EXCEPT
              !.apis = SelectSeq(@, LAMBDA kv : kv.value.metadata.projectId # projectId),
              !.urlIndex = EmptyMap, !.nameIndex = EmptyMap, !.pathIndex = EmptyMap]
  IN  IF s.persistentStore /\ fault # "none"
      THEN [svc |-> s1, store |-> d, result |-> Undefined, threw |-> TRUE]
      ELSE [svc |-> [s1 EXCEPT !.urlIndex = <<>>, !.nameIndex = <<>>, !.pathIndex = <<>>],
            store |-> IF s.persistentStore THEN d1 ELSE d,
            result |-> Cardinality(hit), threw |-> FALSE]

\* a clearByUrl that leaves the entry in the disk document
clearByUrl_MemoryOnly(s, d, t, url, fault) ==
  IF ~s.enabled THEN [svc |-> s, store |-> d, result |-> FALSE, threw |-> FALSE]
  ELSE LET urlKey == getUrlKey(url)
           r == ResolveIndex(s, d, t, "urlIndex", urlKey, FALSE, fault)
           mainKey == getApiKey(r.index.projectId, r.index.apiId)
           s1 == [r.svc EXCEPT !.memoryCache = LruDelete(@, mainKey)]
       IN  IF r.index = Undefined
           THEN [svc |-> r.svc, store |-> d, result |-> FALSE, threw |-> r.threw]
           ELSE [svc |-> [s1 EXCEPT !.urlIndex = LruDelete(@, urlKey)],
                 store |-> d, result |-> TRUE, threw |-> FALSE]

clearByUrl(s, d, t, url, fault) ==
  IF ~s.enabled THEN [svc |-> s, store |-> d, result |-> FALSE, threw |-> FALSE]
  ELSE LET urlKey == getUrlKey(url)
           r == ResolveIndex(s, d, t, "urlIndex", urlKey, FALSE, fault)
           mainKey == getApiKey(r.index.projectId, r.index.apiId)
           s1 == [r.svc EXCEPT !.memoryCache = LruDelete(@, mainKey)]
       IN  IF r.index = Undefined
           THEN [svc |-> r.svc, store |-> d, result |-> FALSE, threw |-> r.threw]
           ELSE IF s.persistentStore /\ fault # "none"
                THEN [svc |-> s1, store |-> d, result |-> Undefined, threw |-> TRUE]
                ELSE [svc |-> [s1 EXCEPT !.urlIndex = LruDelete(@, urlKey)],
                      store |-> IF s.persistentStore
                                THEN [d EXCEPT !.apis = ObjDelete(@, mainKey),
                                               !.urlIndex = MapDelete(@, urlKey)]
                                ELSE d,
                      result |-> TRUE, threw |-> FALSE]

\* ------------------------------------------------- CacheService: sync timer

\* the loop of the setInterval callback (and of shutdown) over dirtyKeys
RECURSIVE FlushKeys(_, _, _, _, _)
FlushKeys(s, d, t, keys, fault) ==
  IF keys = <<>> THEN [svc |-> s, store |-> d]
  ELSE LET got == LruGet(s.memoryCache, Head(keys), t)
           s1  == [s EXCEPT !.memoryCache = got.cache]
           w   == IF got.value # Undefined
                  THEN syncToDisk(s1, d, Head(keys), got.value, fault)
                  ELSE [svc |-> s1, store |-> d]
       IN  FlushKeys(w.svc, w.store, t, Tail(keys), fault)

\* the callback startSyncTimer registers with setInterval
syncTimerCallback(s, d, t, fault) ==
  IF s.dirtyKeys = <<>> THEN [svc |-> s, store |-> d]
  ELSE FlushKeys(s, d, t, s.dirtyKeys, fault)

\* ---------------------------------------------------- CacheService: getStats

\* getStats(): the persistent section is present only with a store
getStats(s, d) ==
  [memory |-> [size |-> Len(s.memoryCache), max |-> s.max,
               hits |-> s.stats.memory.hits, misses |-> s.stats.memory.misses],
   indexes |-> [url |-> Len(s.urlIndex), name |-> Len(s.nameIndex),
                path |-> Len(s.pathIndex)],
   persistent |-> IF s.persistentEnabled /\ s.persistentStore
                  THEN [size |-> Len(d.apis), max |-> 500, hits |-> s.stats.persistent.hits]
                  ELSE Undefined]

\* ---------------------------------------------------- CacheService: shutdown

\* shutdown(): stopSyncTimer, then the flush of the dirty keys
shutdown(s, d, t, fault) ==
  LET s1 == [s EXCEPT !.syncTimer = FALSE]
  IN  IF s1.dirtyKeys # <<>> /\ s1.persistentStore
      THEN FlushKeys(s1, d, t, s1.dirtyKeys, fault)
      ELSE [svc |-> s1, store |-> d]


\* ------------------------------------------------------------------ inputs

P1 == <<"1">>
P2 == <<"2">>
\* Apifox links, abbreviated: "x/" stands for app.apifox.com/link/project/
\* and the "/" between the two numbers for /apis/api-
Url1 == <<"x", "/", "1", "/", "1">>
Url2 == <<"x", "/", "1", "/", "2">>

\* What ApifoxService.exportOpenApi passes to setApi: the fetched document and
\* the metadata extractMetadata builds for it (cachedAt is added by Entry).
Fetched ==
  << [document |-> "D1", projectId |-> P1, apiId |-> 1, name |-> <<"U", "s", "e", "r">>,
      path |-> <<"/", "u">>, method |-> <<"G", "E", "T">>, url |-> Url1],
     [document |-> "D2", projectId |-> P1, apiId |-> 1, name |-> <<"P", "a", "y">>,
      path |-> <<"/", "p">>, method |-> <<"P", "O", "S", "T">>, url |-> Url1],
     [document |-> "D3", projectId |-> P1, apiId |-> 2, name |-> <<"C", "a", "r", "t">>,
      path |-> <<"/", "c">>, method |-> <<"G", "E", "T">>, url |-> Url2],
     [document |-> "D4", projectId |-> P2, apiId |-> 1, name |-> <<"U", "s", "e", "r">>,
      path |-> <<"/", "u">>, method |-> <<"G", "E", "T">>, url |-> <<>>] >>

\* extractMetadata: cachedAt: Date.now()
Entry(f, t) ==
  [document |-> f.document,
   metadata |-> [apiId |-> f.apiId, projectId |-> f.projectId, name |-> f.name,
                 path |-> f.path, method |-> f.method, url |-> f.url, cachedAt |-> t]]

\* the (projectId, apiId) pairs of the lookups
Ids == {<<P1, 1>>, <<P1, 2>>, <<P2, 1>>}
Projects == {P1, P2}
Urls == {Url1, Url2}
NameQueries ==
  {<<P1, <<"U", "s", "e", "r">>>>, <<P1, <<" ", "u", "S", "E", "R", " ">>>>,
   <<P1, <<"P", "a", "y">>>>, <<P1, <<"a", "r">>>>, <<P2, <<"U", "s", "e", "r">>>>}
\* keywords of a fuzzy search: none of them is the name of a fetched API
FuzzyKeywords == {<<"A", "R">>, <<"/", "c">>, <<"s", "e", "r">>, <<"z">>}
PathQueries ==
  {<<P1, <<"g", "e", "t">>, <<"/", "u">>>>, <<P1, <<"P", "O", "S", "T">>, <<"/", "p">>>>,
   <<P1, <<"G", "E", "T">>, <<"/", "c">>>>, <<P1, <<"G", "E", "T">>, <<"/", "u", "/">>>>,
   <<P2, <<"G", "E", "T">>, <<"/", "u">>>>}

\* JSON data is a record [type, value]: type "null", "string" (value: the
\* string), "array" (value: the items) or "object" (value: the [key, value]
\* pairs in insertion order).

JNull == [type |-> "null", value |-> <<>>]
JString(str) == [type |-> "string", value |-> str]
JArray(items) == [type |-> "array", value |-> items]
JObject(fields) == [type |-> "object", value |-> fields]

\* the JSON data given to the add-real-data tool: {"uid": "7"},
\* {"uid": ""}, {"user_id": "8", "list": [{"uid": "9"}]} and
\* {"content": {"id": "5"}, "tags": ["a"]}
PoolData ==
  << JObject(<<[key |-> <<"u", "i", "d">>, value |-> JString(<<"7">>)]>>),
     JObject(<<[key |-> <<"u", "i", "d">>, value |-> JString(<<>>)]>>),
     JObject(<<[key |-> <<"u", "s", "e", "r", "_", "i", "d">>, value |-> JString(<<"8">>)],
               [key |-> <<"l", "i", "s", "t">>,
                value |-> JArray(<<JObject(<<[key |-> <<"u", "i", "d">>, value |-> JString(<<"9">>)]>>)>>)]>>),
     JObject(<<[key |-> <<"c", "o", "n", "t", "e", "n", "t">>,
                value |-> JObject(<<[key |-> <<"i", "d">>, value |-> JString(<<"5">>)]>>)],
               [key |-> <<"t", "a", "g", "s">>, value |-> JArray(<<JString(<<"a">>)>>)]>>) >>
\* the field names mock generation asks the pool for
PoolFields == {<<"u", "i", "d">>, <<"U", "s", "e", "r", "I", "d">>, <<"i", "d">>, <<"t", "a", "g">>, <<"n", "a", "m", "e">>}
\* the scopes of addData and of clearDataPool, with their projectId
AddScopes == {<<"global", <<>>>>, <<"project", P1>>}
ClearScopes == AddScopes \cup {<<"all", <<>>>>}

\* the links given to the refresh-cache tool: Url1 again with its host in
\* upper case, and a link that names no interface
RefreshUrls == {Url1, Url2, <<"X", "/", "1", "/", "1">>, <<"x", "/", "1">>}

KeyOf(id) == getApiKey(id[1], id[2])

\* ------------------------------------------------- the persisted document
\* The conf document has two sections, 'cache' and 'mockDataPool'.

\* storage.get(section)
StorageGet(doc, section) == doc[section]

\* a storage.set that writes the document anew, with the defaults in the
\* other section
StorageSet_WholeDocument(doc, section, data) ==
  [x \in DOMAIN doc |-> IF x = section THEN data
                        ELSE IF x = "cache" THEN EmptyCacheData
                        ELSE [global |-> <<>>, projects |-> <<>>]]

\* storage.set(section, data)
StorageSet(doc, section, data) == [doc EXCEPT ![section] = data]

\* the defaults of the 'mockDataPool' section
EmptyDataPool == [global |-> <<>>, projects |-> <<>>]

\* clearCache(projectId) of storage.service.ts; projectId <<>>: not given
clearCache(doc, projectId) ==
  LET cache == StorageGet(doc, "cache")
      prefix == <<"a", "p", "i", ":">> \o projectId \o <<":">>
  IN  IF projectId # <<>>
      THEN StorageSet(doc, "cache",
                      [cache EXCEPT
                        !.apis = SelectSeq(@, LAMBDA kv : ~startsWith(kv.key, prefix)),
                        !.urlIndex = EmptyMap, !.nameIndex = EmptyMap,
                        !.pathIndex = EmptyMap])
      ELSE StorageSet(doc, "cache", EmptyCacheData)

\* clearDataPool(scope, projectId) of storage.service.ts
clearDataPool(doc, scope, projectId) ==
  LET pool == StorageGet(doc, "mockDataPool")
  IN  IF scope = "project" /\ projectId = <<>>
      THEN [doc |-> doc, threw |-> TRUE]
      ELSE [doc |-> StorageSet(doc, "mockDataPool",
                               IF scope = "global" THEN [pool EXCEPT !.global = <<>>]
                               ELSE IF scope = "project"
                               THEN [pool EXCEPT !.projects = ObjDelete(@, projectId)]
                               ELSE EmptyDataPool),
            threw |-> FALSE]

\* ---------------------------------------------------------- DataPoolService
\* \w of a regular expression
IsWordChar(c) ==
  \/ \E i \in 1..26 : UpperCaseLetters[i] = c \/ LowerCaseLetters[i] = c
  \/ \E i \in 1..10 : Digits[i] = c
  \/ c = "_"

\* replace(/_([a-z])/g, (_, letter) => letter.toUpperCase())
RECURSIVE SnakeToCamel(_)
SnakeToCamel(str) ==
  IF str = <<>> THEN <<>>
  ELSE IF /\ Len(str) >= 2
          /\ str[1] = "_"
          /\ \E i \in 1..26 : LowerCaseLetters[i] = str[2]
       THEN <<UpperChar(str[2])>> \o SnakeToCamel(SubSeq(str, 3, Len(str)))
       ELSE <<str[1]>> \o SnakeToCamel(Tail(str))

normalizeFieldName(name) ==
  LET normalized == SnakeToCamel(SelectSeq(name, IsWordChar))
  IN  IF normalized = <<>> THEN <<>>
      ELSE <<LowerChar(normalized[1])>> \o Tail(normalized)

\* target[key].push(...values), after target[key] = [] for a new key
PushValues(target, key, values) ==
  ObjSet(target, key, (IF ObjHas(target, key) THEN ObjGet(target, key) ELSE <<>>) \o values)

RECURSIVE mergeFieldValues(_, _)
mergeFieldValues(target, source) ==
  IF source = <<>> THEN target
  ELSE mergeFieldValues(PushValues(target, Head(source).key, Head(source).value),
                        Tail(source))

\* the values the code refuses to store
IsMeaningless(str) ==
  str \in {<<>>, <<"n", "u", "l", "l">>, <<"u", "n", "d", "e", "f", "i", "n", "e", "d">>,
           <<"N", "/", "A">>}

RECURSIVE extractFieldValues(_)
RECURSIVE ExtractItems(_, _)
RECURSIVE ExtractFields(_, _)

\* for (const item of items) mergeFieldValues(result, extractFieldValues(item))
ExtractItems(items, result) ==
  IF items = <<>> THEN result
  ELSE ExtractItems(Tail(items), mergeFieldValues(result, extractFieldValues(Head(items))))

\* the loop over Object.entries(data)
ExtractFields(fields, result) ==
  IF fields = <<>> THEN result
  ELSE LET normalizedKey == normalizeFieldName(Head(fields).key)
           value == Head(fields).value
           next ==
             IF value.type = "null" THEN result
             ELSE IF value.type = "array"
             THEN IF value.value = <<>> THEN result
                  ELSE IF value.value[1].type = "string"
                  THEN PushValues(result, normalizedKey,
                                  [i \in 1..Len(value.value) |-> value.value[i].value])
                  ELSE ExtractItems(value.value, result)
             ELSE IF value.type = "object"
             THEN mergeFieldValues(result, extractFieldValues(value))
             ELSE IF IsMeaningless(value.value)
             THEN PushValues(result, normalizedKey, <<>>)
             ELSE PushValues(result, normalizedKey, <<value.value>>)
       IN  ExtractFields(Tail(fields), next)

extractFieldValues(data) ==
  IF data.type = "array" THEN ExtractItems(data.value, <<>>)
  ELSE IF data.type = "object" THEN ExtractFields(data.value, <<>>)
  ELSE <<>>

\* [...new Set(values)]
RECURSIVE Unique(_)
Unique(values) ==
  IF values = <<>> THEN <<>>
  ELSE LET front == Unique(SubSeq(values, 1, Len(values) - 1))
           last == values[Len(values)]
       IN  IF \E i \in 1..Len(front) : front[i] = last THEN front ELSE Append(front, last)

\* the merge loop of addData into one pool (pool.global or a project's pool)
RECURSIVE MergeIntoPool(_, _)
MergeIntoPool(pool, fieldValues) ==
  IF fieldValues = <<>> THEN pool
  ELSE LET field == Head(fieldValues).key
           old == IF ObjHas(pool, field) THEN ObjGet(pool, field) ELSE <<>>
       IN  MergeIntoPool(ObjSet(pool, field, Unique(old \o Head(fieldValues).value)),
                         Tail(fieldValues))

\* DataPoolService.addData; projectId <<>>: not given
addData(doc, data, scope, projectId) ==
  LET fieldValues == extractFieldValues(data)
      pool == StorageGet(doc, "mockDataPool")
      project == IF ObjHas(pool.projects, projectId) THEN ObjGet(pool.projects, projectId)
                 ELSE <<>>
  IN  IF scope = "project" /\ projectId = <<>>
      THEN [doc |-> doc, added |-> 0, threw |-> TRUE]
      ELSE IF fieldValues = <<>>
      THEN [doc |-> doc, added |-> 0, threw |-> FALSE]
      ELSE [doc |-> StorageSet(doc, "mockDataPool",
                               IF scope = "global"
                               THEN [pool EXCEPT !.global = MergeIntoPool(@, fieldValues)]
                               ELSE [pool EXCEPT
                                      !.projects =
                                        ObjSet(@, projectId,
                                               MergeIntoPool(project, fieldValues))]),
            added |-> Len(fieldValues), threw |-> FALSE]

\* the aliases table of matchFieldName
Aliases ==
  <<[key |-> <<"u", "i", "d">>,
      value |-> <<<<"u", "s", "e", "r", "I", "d">>, <<"i", "d">>, <<"u", "s", "e", "r", "i", "d">>>>],
     [key |-> <<"u", "s", "e", "r", "i", "d">>,
      value |-> <<<<"u", "i", "d">>, <<"i", "d">>, <<"u", "s", "e", "r", "I", "d">>>>],
     [key |-> <<"b", "i", "z", "i", "d">>,
      value |-> <<<<"b", "u", "s", "i", "n", "e", "s", "s", "I", "d">>, <<"b", "i", "z", "I", "d">>, <<"b", "u", "s", "i", "n", "e", "s", "s", "_", "i", "d">>>>],
     [key |-> <<"a", "v", "a", "t", "a", "r">>,
      value |-> <<<<"a", "v", "a", "t", "a", "r", "U", "r", "l">>, <<"h", "e", "a", "d", "i", "m", "g">>, <<"p", "r", "o", "f", "i", "l", "e", "P", "i", "c">>, <<"p", "r", "o", "f", "i", "l", "e", "P", "i", "c", "t", "u", "r", "e">>>>],
     [key |-> <<"a", "v", "a", "t", "a", "r", "t", "h", "u", "m", "b">>,
      value |-> <<<<"a", "v", "a", "t", "a", "r", "T", "h", "u", "m", "b">>, <<"a", "v", "a", "t", "a", "r", "_", "t", "h", "u", "m", "b">>, <<"t", "h", "u", "m", "b", "U", "r", "l">>>>],
     [key |-> <<"n", "i", "c", "k", "n", "a", "m", "e">>,
      value |-> <<<<"n", "a", "m", "e">>, <<"u", "s", "e", "r", "N", "a", "m", "e">>, <<"d", "i", "s", "p", "l", "a", "y", "N", "a", "m", "e">>>>],
     [key |-> <<"u", "s", "e", "r", "n", "a", "m", "e">>,
      value |-> <<<<"n", "i", "c", "k", "n", "a", "m", "e">>, <<"n", "a", "m", "e">>, <<"d", "i", "s", "p", "l", "a", "y", "N", "a", "m", "e">>>>],
     [key |-> <<"t", "o", "k", "e", "n">>,
      value |-> <<<<"a", "c", "c", "e", "s", "s", "T", "o", "k", "e", "n">>, <<"a", "u", "t", "h", "T", "o", "k", "e", "n">>, <<"a", "p", "i", "K", "e", "y">>>>]>>

\* the key of pool at the first of the indexes, in the order of Object.keys
FirstKey(pool, indexes) ==
  IF indexes # {}
  THEN [found |-> TRUE, key |-> pool[CHOOSE i \in indexes : \A j \in indexes : i <= j].key]
  ELSE [found |-> FALSE, key |-> <<>>]

\* DataPoolService.matchFieldName: [found, key], found FALSE for undefined
matchFieldName(targetField, pool) ==
  LET lowerTarget == toLowerCase(targetField)
      sameLower == FirstKey(pool, {i \in 1..Len(pool) :
                                     toLowerCase(pool[i].key) = lowerTarget})
      targetAliases == IF ObjHas(Aliases, lowerTarget) THEN ObjGet(Aliases, lowerTarget)
                       ELSE <<>>
      held == {i \in 1..Len(targetAliases) : ObjHas(pool, normalizeFieldName(targetAliases[i]))}
      near == FirstKey(pool, {i \in 1..Len(pool) :
                /\ \/ includes(toLowerCase(pool[i].key), lowerTarget)
                   \/ includes(lowerTarget, toLowerCase(pool[i].key))
                /\ Len(pool[i].key) - Len(lowerTarget) <= 3
                /\ Len(lowerTarget) - Len(pool[i].key) <= 3})
  IN  IF ObjHas(pool, targetField) THEN [found |-> TRUE, key |-> targetField]
      ELSE IF sameLower.found THEN sameLower
      ELSE IF held # {}
      THEN [found |-> TRUE,
            key |-> normalizeFieldName(
                      targetAliases[CHOOSE i \in held : \A j \in held : i <= j])]
      ELSE near

\* what one pool answers: the list under the exact key, else under the key
\* matchFieldName finds; [found, values]
PoolLookup(pool, normalizedName) ==
  IF ObjHas(pool, normalizedName)
  THEN [found |-> TRUE, values |-> ObjGet(pool, normalizedName)]
  ELSE IF matchFieldName(normalizedName, pool).found
  THEN [found |-> TRUE, values |-> ObjGet(pool, matchFieldName(normalizedName, pool).key)]
  ELSE [found |-> FALSE, values |-> <<>>]

\* shuffleArray: any order of the elements may come out
shuffleArray(array) ==
  {[i \in 1..Len(array) |-> array[p[i]]] :
     p \in {q \in [1..Len(array) -> 1..Len(array)] :
              \A i, j \in 1..Len(array) : q[i] = q[j] => i = j}}

\* DataPoolService.getData on the pool read from the document: the lists it
\* may return; projectId <<>>: not given
getData(pool, fieldName, projectId) ==
  LET normalizedName == normalizeFieldName(fieldName)
      project == IF projectId # <<>> /\ ObjHas(pool.projects, projectId)
                 THEN PoolLookup(ObjGet(pool.projects, projectId), normalizedName)
                 ELSE [found |-> FALSE, values |-> <<>>]
      global == PoolLookup(pool.global, normalizedName)
  IN  IF project.found THEN shuffleArray(project.values)
      ELSE IF global.found THEN shuffleArray(global.values)
      ELSE {<<>>}

\* ------------------------------------------------------------ the tools

IsDigit(c) == \E i \in 1..10 : Digits[i] = c

\* the last index of the run of digits of s that starts at i (i - 1: none)
DigitsEnd(s, i) ==
  CHOOSE j \in (i - 1)..Len(s) :
    /\ \A k \in i..j : IsDigit(s[k])
    /\ j = Len(s) \/ ~IsDigit(s[j + 1])

\* the regular expression of parseApifoxUrl matches at index i of url:
\* /x\/(\d+)\/(\d+)/i in the abbreviated form of the links
LinkMatchesAt(url, i) ==
  /\ i + 1 <= Len(url)
  /\ LowerChar(url[i]) = "x"
  /\ url[i + 1] = "/"
  /\ DigitsEnd(url, i + 2) >= i + 2
  /\ DigitsEnd(url, i + 2) + 1 <= Len(url)
  /\ url[DigitsEnd(url, i + 2) + 1] = "/"
  /\ DigitsEnd(url, DigitsEnd(url, i + 2) + 2) >= DigitsEnd(url, i + 2) + 2

\* parseApifoxUrl: url.match(regex) finds the leftmost match
parseApifoxUrl(url) ==
  IF ~\E i \in 1..Len(url) : LinkMatchesAt(url, i)
  THEN [projectId |-> <<>>, apiId |-> 0, isValid |-> FALSE]
  ELSE LET i == CHOOSE i \in 1..Len(url) :
                  LinkMatchesAt(url, i) /\ \A j \in 1..(i - 1) : ~LinkMatchesAt(url, j)
           p == DigitsEnd(url, i + 2)
       IN  [projectId |-> SubSeq(url, i + 2, p),
            apiId |-> StringToNumber(SubSeq(url, p + 2, DigitsEnd(url, p + 2))),
            isValid |-> TRUE]

\* exportOpenApi after cache.getApi(projectId, apiId) gave byId: a hit is
\* returned, otherwise the origin API is asked and its answer goes to setApi;
\* queued is the entry the setImmediate callback of setApi will write, if any
ExportAfterGetApi(byId, t, url, fetched) ==
  IF byId.result # Undefined
  THEN [svc |-> byId.svc, store |-> byId.store,
        document |-> byId.result.entry.document, fromCache |-> TRUE,
        queued |-> Undefined]
  ELSE [svc |-> setApi(byId.svc, Entry([fetched EXCEPT !.url = url], t), t),
        store |-> byId.store,
        document |-> fetched.document, fromCache |-> FALSE,
        queued |-> IF setApiSchedules(byId.svc)
                   THEN Entry([fetched EXCEPT !.url = url], t) ELSE Undefined]

\* exportOpenApi after cache.findByUrl(url) gave byUrl
ExportAfterFindByUrl(byUrl, t, projectId, apiId, url, fetched) ==
  IF byUrl.result # Undefined
  THEN [svc |-> byUrl.svc, store |-> byUrl.store,
        document |-> byUrl.result.entry.document, fromCache |-> TRUE,
        queued |-> Undefined]
  ELSE ExportAfterGetApi(getApi(byUrl.svc, byUrl.store, t, projectId, apiId, "none"),
                         t, url, fetched)

\* ApifoxService.exportOpenApi for one selected endpoint with a url: fetched
\* is what the origin API answers if it is asked
exportOpenApi(s, d, t, projectId, apiId, url, fetched) ==
  ExportAfterFindByUrl(findByUrl(s, d, t, url, "none"), t, projectId, apiId, url, fetched)

\* the refresh-cache tool once cache.clearByUrl(url) has returned cleared
RefreshAfterClear(cleared, urlInfo, t, url, fetched) ==
  exportOpenApi(cleared.svc, cleared.store, t, urlInfo.projectId, urlInfo.apiId, url,
                fetched)

\* the refresh-cache tool for a valid link: clearByUrl, then exportOpenApi
refreshCache(s, d, t, url, fetched) ==
  RefreshAfterClear(clearByUrl(s, d, t, url, "none"), parseApifoxUrl(url), t, url, fetched)

\* the origin API answers a request for the interface of url with Fetched[i]
Answers(url, i) ==
  /\ parseApifoxUrl(url).isValid
  /\ Fetched[i].projectId = parseApifoxUrl(url).projectId
  /\ Fetched[i].apiId = parseApifoxUrl(url).apiId

\* ------------------------------------------------------------- HttpServer
\* An SSE connection is named by the ordinal of its GET /sse request; the
\* SSEServerTransport created for it carries the same number.  sseTransport
\* is 0 (null) or the number of a transport; connections is the key set of
\* the connections map; opened counts the GET /sse requests served.

NewHttpServer == [sseTransport |-> 0, connections |-> {}, opened |-> 0]

\* GET /sse: the connection is recorded and a new transport replaces the
\* one in the sseTransport field
GetSse(h) ==
  [h EXCEPT !.opened = @ + 1,
            !.connections = @ \cup {h.opened + 1},
            !.sseTransport = h.opened + 1]

\* the 'close' or 'error' event of the response of connection c
OnClose(h, c) == [h EXCEPT !.connections = @ \ {c}]

\* POST /messages: the transport whose handlePostMessage gets the request
\* and whether its connection is still open; <<0, FALSE>> is the 400 answer
PostMessages(h) ==
  IF h.sseTransport = 0 THEN <<0, FALSE>>
  ELSE <<h.sseTransport, h.sseTransport \in h.connections>>

\* ------------------------------------------------------------------- state

Keys == {KeyOf(id) : id \in Ids}

VARIABLES
  now,         \* Date.now()
  svc,         \* the fields of the CacheService instance
  store,       \* the 'cache' section of the persisted document
  immediates,  \* the setImmediate callbacks not yet run: [key, entry], oldest first
  boots,       \* how many times the process was restarted
  proc,        \* the process: its shutdown sequence (index.ts)
  mockDataPool, \* the 'mockDataPool' section of the persisted document
  httpServer,  \* the fields of the HttpServer instance
  hist         \* what an observer of the calls has seen (history, not program state)

vars == <<now, svc, store, immediates, boots, proc, mockDataPool, httpServer, hist>>

\* the persisted document
Document == [cache |-> store, mockDataPool |-> mockDataPool]

\* proc.phase is "running", "closing" (the signal handler awaits
\* httpServerInstance.stop()) or "exited" (process.exit was called);
\* proc.http says that an HTTP server was started (httpServerInstance is set);
\* proc.stop tells how the wait for the HTTP server ended, proc.flush
\* which disk failure the final flush met; proc.storage is "failed" when
\* getStorageInstance() threw in the constructor of this process's cache.
Running(http) ==
  [phase |-> "running", http |-> http, stop |-> "none", flush |-> "none", storage |-> "ok"]

StatsTotal(s) == s.stats.memory.hits + s.stats.memory.misses + s.stats.persistent.hits

\* ----------------------------------------------------------- the observer
\* hist.watch names what the observer records:
\*  "writes":   lastSet[k], the entry of the latest setApi of key k (over all
\*              processes); status[k] of that entry in the running instance:
\*              "written" (held by the Memory Tier ever since), "evicted"
\*              (dropped from the Memory Tier since), "cleared" (removed by
\*              clear, clearProject or clearByUrl since) or "none";
\*              cleared[p]: clearProject(p) returned and no setApi for
\*              project p was made since;
\*  "recency":  accessed, the keys in the order of their last setApi or
\*              lookup hit, and touched, the keys in the order of their last
\*              read or write in the Memory Tier, both oldest first;
\*  "scenario": puts, the keys of the setApi calls made since the instance
\*              was constructed, as long as nothing but setApi calls were made
\*              (<<"other">> afterwards);
\*  "faults":   failed[k], the entry of key k whose latest disk write failed
\*              while k stays dirty and no setApi for k was made since
\*              (Undefined otherwise);
\*  always:     handledBy[c], for SSE client c the transports that were given
\*              its POSTed messages, each with whether it was open then.
\*  "boot":     bootExpired, the keys of the expired entries the document
\*              held when the constructor of this process loaded it.

InitHist(watch) ==
  [watch |-> watch,
   lastSet |-> [k \in Keys |-> Undefined],
   status |-> [k \in Keys |-> "none"],
   cleared |-> [p \in Projects |-> FALSE],
   accessed |-> <<>>,
   touched |-> <<>>,
   puts |-> <<>>,
   failed |-> [k \in Keys |-> Undefined],
   bootExpired |-> {},
   unindexed |-> {},
   handledBy |-> [c \in 1..MaxClients |-> {}]]

MoveToEnd(q, k) == Append(SetDelete(q, k), k)

\* the keys of q still in the Memory Tier mem
Kept(q, mem) == SelectSeq(q, LAMBDA k : k \in LruKeys(mem))

\* an entry recorded as "written" that the Memory Tier no longer holds
Dropped(status, mem, to) ==
  [k \in Keys |-> IF status[k] = "written" /\ k \notin LruKeys(mem) THEN to ELSE status[k]]

ObserveSetApi(h, s2, entry) ==
  LET k == getApiKey(entry.metadata.projectId, entry.metadata.apiId)
      w == "writes" \in h.watch
      r == "recency" \in h.watch
  IN  [h EXCEPT
        !.lastSet = IF w THEN [@ EXCEPT ![k] = entry] ELSE @,
        !.status = IF w THEN Dropped([@ EXCEPT ![k] = "written"], s2.memoryCache, "evicted")
                   ELSE @,
        !.cleared = IF w THEN [@ EXCEPT ![entry.metadata.projectId] = FALSE] ELSE @,
        !.accessed = IF r THEN Kept(MoveToEnd(@, k), s2.memoryCache) ELSE @,
        !.touched = IF r THEN Kept(MoveToEnd(@, k), s2.memoryCache) ELSE @,
        !.puts = IF "scenario" \in h.watch
                 THEN IF @ # <<"other">> /\ Len(@) < 3 THEN Append(@, k) ELSE <<"other">>
                 ELSE @,
        !.failed = IF "faults" \in h.watch THEN [@ EXCEPT ![k] = Undefined] ELSE @,
        !.unindexed = @ \ {k}]

\* a lookup that went through getApiInternal(key): hit says it returned an entry
ObserveLookup(h, s2, key, hit) ==
  LET r == "recency" \in h.watch
  IN  [h EXCEPT
        !.status = IF "writes" \in h.watch THEN Dropped(@, s2.memoryCache, "evicted") ELSE @,
        !.accessed = IF r THEN Kept(IF hit THEN MoveToEnd(@, key) ELSE @, s2.memoryCache)
                     ELSE @,
        !.touched = IF r THEN Kept(MoveToEnd(@, key), s2.memoryCache) ELSE @,
        !.puts = IF "scenario" \in h.watch THEN <<"other">> ELSE @]

\* the sync timer read the dirty keys, in their order, from the Memory Tier
RECURSIVE TouchAll(_, _)
TouchAll(q, keys) ==
  IF keys = <<>> THEN q ELSE TouchAll(MoveToEnd(q, Head(keys)), Tail(keys))

\* what the loop over dirtyKeys passes to syncToDisk: for every dirty key
\* the Memory Tier still holds, its entry
DirtyEntries(s, t) ==
  [k \in Keys |->
     IF \E j \in 1..Len(s.dirtyKeys) : s.dirtyKeys[j] = k
     THEN LruGet(s.memoryCache, k, t).value
     ELSE Undefined]

\* syncToDisk was called for the keys of attempted (key -> entry passed, or
\* Undefined), and s2 is the instance afterwards: a key no longer dirty was
\* written, a key attempted and still dirty met a failure
ObserveWrites(h, s2, attempted) ==
  [h EXCEPT
    !.failed = IF "faults" \in h.watch
               THEN [k \in Keys |->
                      IF \A j \in 1..Len(s2.dirtyKeys) : s2.dirtyKeys[j] # k THEN Undefined
                      ELSE IF attempted[k] # Undefined THEN attempted[k]
                      ELSE @[k]]
               ELSE @]

ObserveSyncTimer(h, s2, dirty) ==
  [h EXCEPT
    !.status = IF "writes" \in h.watch THEN Dropped(@, s2.memoryCache, "evicted") ELSE @,
    !.accessed = IF "recency" \in h.watch THEN Kept(@, s2.memoryCache) ELSE @,
    !.touched = IF "recency" \in h.watch THEN Kept(TouchAll(@, dirty), s2.memoryCache) ELSE @]

\* clear (projects = all), clearProject (one project) or clearByUrl (none)
ObserveClear(h, s2, projects, returned) ==
  [h EXCEPT
    !.status = IF "writes" \in h.watch THEN Dropped(@, s2.memoryCache, "cleared") ELSE @,
    !.cleared = IF "writes" \in h.watch /\ returned
                THEN [p \in Projects |-> @[p] \/ p \in projects] ELSE @,
    !.accessed = IF "recency" \in h.watch THEN Kept(@, s2.memoryCache) ELSE @,
    !.touched = IF "recency" \in h.watch THEN Kept(@, s2.memoryCache) ELSE @,
    !.puts = IF "scenario" \in h.watch THEN <<"other">> ELSE @,
    !.unindexed = IF "indexes" \in h.watch /\ returned /\ projects # {} THEN Keys ELSE @]

ObserveRestart(h, s2) ==
  [h EXCEPT
    !.status = [k \in Keys |-> "none"],
    !.accessed = <<>>,
    !.touched = IF "recency" \in h.watch
                THEN [i \in 1..Len(s2.memoryCache) |-> s2.memoryCache[i].key] ELSE @,
    !.puts = <<>>,
    !.failed = [k \in Keys |-> Undefined]]

\* the constructor found document d at time t
ObserveBoot(h, d, t) ==
  [h EXCEPT
    !.bootExpired = IF "boot" \in h.watch
                    THEN {d.apis[i].key : i \in {j \in 1..Len(d.apis) :
                                                   isExpired(d.apis[j].value, t)}}
                    ELSE @]

\* The first process starts over a fresh document.
InitWith(enabledOptions, persistentOptions, maxSize, watch) ==
  /\ now = 0
  /\ store = EmptyCacheData
  /\ \E enabled \in enabledOptions, persistent \in persistentOptions :
       svc = Construct(enabled, persistent, maxSize, EmptyCacheData, 0, "none").svc
  /\ immediates = <<>>
  /\ boots = 0
  /\ proc = Running(FALSE)
  /\ mockDataPool = EmptyDataPool
  /\ httpServer = NewHttpServer
  /\ hist = InitHist(watch)

\* ----------------------------------------------------------------- actions

\* a setApi that writes the entry to the disk document before it returns
SetApi_WriteThrough(i, queued) ==
  LET entry == Entry(Fetched[i], now)
      s2 == setApi(svc, entry, now)
      w == syncToDisk(s2, store, KeyOf(<<Fetched[i].projectId, Fetched[i].apiId>>), entry,
                      "none")
  IN  /\ Len(immediates) < queued
      /\ svc' = w.svc
      /\ store' = w.store
      /\ hist' = IF svc.enabled THEN ObserveSetApi(hist, s2, entry) ELSE hist
      /\ UNCHANGED <<httpServer, now, mockDataPool, immediates, boots, proc>>

\* cache.setApi({document, metadata}) from exportOpenApi, while fewer than
\* queued setImmediate callbacks wait
SetApi(i, queued) ==
  LET entry == Entry(Fetched[i], now)
      s2 == setApi(svc, entry, now)
  IN  /\ Len(immediates) < queued
      /\ svc' = s2
      /\ immediates' = IF setApiSchedules(svc)
                       THEN Append(immediates,
                                   [key |-> KeyOf(<<Fetched[i].projectId, Fetched[i].apiId>>),
                                    entry |-> entry])
                       ELSE immediates
      /\ hist' = IF svc.enabled THEN ObserveSetApi(hist, s2, entry) ELSE hist
      /\ UNCHANGED <<httpServer, now, mockDataPool, store, boots, proc>>

\* the event loop runs the oldest setImmediate callback: syncToDisk(mainKey, entry)
RunImmediate(fault) ==
  /\ immediates # <<>>
  /\ LET r == syncToDisk(svc, store, Head(immediates).key, Head(immediates).entry, fault)
     IN  /\ svc' = r.svc
         /\ store' = r.store
         /\ hist' = ObserveWrites(hist, r.svc,
                                  [k \in Keys |-> IF k = Head(immediates).key
                                                  THEN Head(immediates).entry
                                                  ELSE Undefined])
  /\ immediates' = Tail(immediates)
  /\ UNCHANGED <<httpServer, now, mockDataPool, boots, proc>>

\* the setInterval callback fires
SyncTimer(fault) ==
  /\ svc.syncTimer
  /\ LET r == syncTimerCallback(svc, store, now, fault)
     IN  /\ svc' = r.svc
         /\ store' = r.store
         /\ hist' = ObserveWrites(ObserveSyncTimer(hist, r.svc, svc.dirtyKeys), r.svc,
                                  DirtyEntries(svc, now))
  /\ UNCHANGED <<httpServer, now, mockDataPool, immediates, boots, proc>>

\* a lookup, made while the instance's counters add up to less than asked
Lookup(r, asked) ==
  /\ StatsTotal(svc) < asked
  /\ svc' = r.svc
  /\ store' = r.store
  /\ UNCHANGED <<httpServer, now, mockDataPool, immediates, boots, proc>>

GetApi(id, fault, asked) ==
  LET r == getApi(svc, store, now, id[1], id[2], fault)
  IN  /\ Lookup(r, asked)
      /\ hist' = IF svc.enabled THEN ObserveLookup(hist, r.svc, KeyOf(id), r.result # Undefined)
                 ELSE hist

\* the lookups through an index: the observer follows the Memory Tier only
FindBy(r, asked) ==
  /\ Lookup(r, asked)
  /\ hist' = [hist EXCEPT
               !.status = IF "writes" \in hist.watch
                          THEN Dropped(@, r.svc.memoryCache, "evicted") ELSE @,
               !.puts = IF "scenario" \in hist.watch THEN <<"other">> ELSE @]

FindByUrl(url, fault, asked) == FindBy(findByUrl(svc, store, now, url, fault), asked)

FindByName(q, fault, asked) == FindBy(findByName(svc, store, now, q[1], q[2], fault), asked)

FindByPath(q, fault, asked) ==
  FindBy(findByPath(svc, store, now, q[1], q[2], q[3], fault), asked)

\* clear, clearProject, clearByUrl: persistentStore.set('cache', ...) writes
\* the section into the document
Manage(r, projects) ==
  /\ svc' = r.svc
  /\ store' = StorageSet(Document, "cache", r.store).cache
  /\ mockDataPool' = StorageSet(Document, "cache", r.store).mockDataPool
  /\ hist' = ObserveClear(hist, r.svc, projects, ~r.threw)
  /\ UNCHANGED <<httpServer, now, immediates, boots, proc>>

Clear(fault) == Manage(clear(svc, store, fault), {})

ClearProject(projectId, fault) ==
  Manage(clearProject(svc, store, now, projectId, fault), {projectId})

ClearByUrl(url, fault) == Manage(clearByUrl(svc, store, now, url, fault), {})

\* the state after the refresh-cache tool returned r
Refreshed(r, entry) ==
  /\ svc' = r.svc
  /\ store' = r.store
  /\ immediates' = IF r.queued = Undefined THEN immediates
                   ELSE Append(immediates,
                               [key |-> getApiKey(entry.metadata.projectId,
                                                  entry.metadata.apiId),
                                entry |-> entry])
  /\ hist' = IF r.fromCache THEN hist ELSE ObserveSetApi(hist, r.svc, entry)
  /\ UNCHANGED <<httpServer, now, mockDataPool, boots, proc>>

\* the refresh-cache tool is called with a valid link, the origin API
\* holding Fetched[i] for its interface, while the instance's counters add up
\* to less than asked
RefreshCache(url, i, queued, asked) ==
  /\ Answers(url, i)
  /\ Len(immediates) < queued
  /\ StatsTotal(svc) < asked
  /\ Refreshed(refreshCache(svc, store, now, url, Fetched[i]),
               Entry([Fetched[i] EXCEPT !.url = url], now))

\* the add-real-data tool: DataPoolService.addData
AddData(i, scope, projectId) ==
  /\ mockDataPool' = addData(Document, PoolData[i], scope, projectId).doc.mockDataPool
  /\ store' = addData(Document, PoolData[i], scope, projectId).doc.cache
  /\ UNCHANGED <<httpServer, now, svc, immediates, boots, proc, hist>>

\* the clear-data-pool tool: clearDataPool of storage.service.ts
ClearDataPool(scope, projectId) ==
  /\ mockDataPool' = clearDataPool(Document, scope, projectId).doc.mockDataPool
  /\ store' = clearDataPool(Document, scope, projectId).doc.cache
  /\ UNCHANGED <<httpServer, now, svc, immediates, boots, proc, hist>>

\* clearCache of storage.service.ts: it works on the document only
ClearCache(projectId) ==
  /\ mockDataPool' = clearCache(Document, projectId).mockDataPool
  /\ store' = clearCache(Document, projectId).cache
  /\ UNCHANGED <<httpServer, now, svc, immediates, boots, proc, hist>>

\* Time passes. A setImmediate callback runs before the event loop turns
\* again, so none is left waiting while a whole time unit goes by.
AdvanceTime ==
  /\ now < MaxTime
  /\ immediates = <<>>
  /\ now' = now + 1
  /\ UNCHANGED <<httpServer, svc, store, immediates, boots, proc, mockDataPool, hist>>

\* The process ends and a new one starts: a new CacheService is constructed
\* with the same options over the persisted document; callbacks die with the
\* old process.
Restart(fault) ==
  /\ boots < MaxRestarts
  /\ LET r == Construct(svc.enabled, svc.options.persistent, svc.max, store, now, fault)
     IN  /\ svc' = r.svc
         /\ store' = r.store
         /\ hist' = ObserveBoot(ObserveRestart(hist, r.svc), store, now)
  /\ immediates' = <<>>
  /\ boots' = boots + 1
  /\ proc' = [Running(proc.http) EXCEPT
               !.storage = IF svc.options.persistent /\ fault = "storage"
                           THEN "failed" ELSE "ok"]
  /\ UNCHANGED <<httpServer, now, mockDataPool>>

\* ------------------------------------------------------- graceful shutdown

\* main() started the HTTP transport: httpServerInstance is set
StartHttpServer ==
  /\ proc.phase = "running"
  /\ ~proc.http
  /\ proc' = [proc EXCEPT !.http = TRUE]
  /\ UNCHANGED <<httpServer, now, mockDataPool, svc, store, immediates, boots, hist>>

\* The rest of the signal handler once httpServerInstance.stop() is over (how
\* tells in which way): FoxyMcpServer.shutdown() calls CacheService.shutdown(),
\* then process.exit(0); fault is the disk failure the flush meets.  Nothing
\* else runs in between, and the callbacks still queued die with the process.
ShutdownAndExit(fault, how) ==
  /\ LET r == shutdown(svc, store, now, fault)
     IN  /\ svc' = r.svc
         /\ store' = r.store
         /\ hist' = ObserveWrites(
                      ObserveSyncTimer(hist, r.svc,
                                       IF svc.persistentStore THEN svc.dirtyKeys ELSE <<>>),
                      r.svc, DirtyEntries(svc, now))
  /\ immediates' = <<>>
  /\ proc' = [proc EXCEPT !.phase = "exited", !.stop = how, !.flush = fault]
  /\ UNCHANGED <<httpServer, now, mockDataPool, boots>>

\* SIGTERM or SIGINT arrives: with an HTTP server the handler awaits its
\* stop(), which waits for httpServer.close or for 5 seconds; without one
\* it goes on to the flush at once.
Signal(fault) ==
  /\ proc.phase = "running"
  /\ IF proc.http
     THEN /\ proc' = [proc EXCEPT !.phase = "closing"]
          /\ UNCHANGED <<httpServer, now, mockDataPool, svc, store, immediates, boots, hist>>
     ELSE ShutdownAndExit(fault, "none")

\* the callback of httpServer.close fires, with or without an error
CloseCallback(fault) ==
  /\ proc.phase = "closing"
  /\ ShutdownAndExit(fault, "closed")

\* stop() without its 5 second timer
CloseTimeout_NoTimer(fault) ==
  /\ proc.phase = "closing"
  /\ FALSE
  /\ ShutdownAndExit(fault, "timeout")

\* the 5 second timer of stop() fires first and rejects the wait
CloseTimeout(fault) ==
  /\ proc.phase = "closing"
  /\ ShutdownAndExit(fault, "timeout")

\* a second signal during the wait: stop() returns at once (isShuttingDown)
SignalAgain(fault) ==
  /\ proc.phase = "closing"
  /\ ShutdownAndExit(fault, "again")

\* ------------------------------------------------------------ HTTP transport

\* a client opens an SSE connection
SseConnect ==
  /\ httpServer.opened < MaxClients
  /\ httpServer' = GetSse(httpServer)
  /\ UNCHANGED <<now, svc, store, immediates, boots, proc, mockDataPool, hist>>

\* the connection of client c closes
SseClose(c) ==
  /\ c \in httpServer.connections
  /\ httpServer' = OnClose(httpServer, c)
  /\ UNCHANGED <<now, svc, store, immediates, boots, proc, mockDataPool, hist>>

\* client c, still connected, posts a message to /messages
PostMessage(c) ==
  /\ c \in httpServer.connections
  /\ hist' = [hist EXCEPT !.handledBy[c] = @ \cup {PostMessages(httpServer)}]
  /\ UNCHANGED <<now, svc, store, immediates, boots, proc, mockDataPool, httpServer>>

\* ---------------------------------------------------------- specifications

\* The lifecycle of the two tiers as getApi sees it: writes of two projects
\* into a Memory Tier of one entry, deferred and periodic disk writes,
\* expiry, clearProject and a restart, with and without persistence.
Init == InitWith({TRUE}, BOOLEAN, CoreMaxSize, {"writes"})

Next ==
  \/ \E i \in {1, 2, 4} : SetApi(i, CoreImmediates)
  \/ RunImmediate("none")
  \/ SyncTimer("none")
  \/ \E id \in {<<P1, 1>>, <<P2, 1>>} : GetApi(id, "none", CoreLookups)
  \/ ClearProject(P1, "none")
  \/ AdvanceTime
  \/ Restart("none")

Spec == Init /\ [][Next]_vars

\* Eviction: three keys written into a Memory Tier of two entries, read back
\* and synced, with and without persistence.
InitLru == InitWith({TRUE}, BOOLEAN, LruMaxSize, {"writes", "recency", "scenario"})

NextLru ==
  \/ \E i \in {1, 3, 4} : SetApi(i, LruImmediates)
  \/ RunImmediate("none")
  \/ SyncTimer("none")
  \/ \E id \in Ids : GetApi(id, "none", LruLookups)

SpecLru == InitLru /\ [][NextLru]_vars

\* The lookups through the indexes: two entries with URLs, their deferred
\* writes, expiry and a restart.
InitFind == InitWith({TRUE}, {TRUE}, FindMaxSize, {})

NextFind ==
  \/ \E i \in {1, 3} : SetApi(i, FindImmediates)
  \/ RunImmediate("none")
  \/ \E url \in Urls : FindByUrl(url, "none", FindLookups)
  \/ \E q \in NameQueries : FindByName(q, "none", FindLookups)
  \/ \E q \in PathQueries : FindByPath(q, "none", FindLookups)
  \/ AdvanceTime
  \/ Restart("none")

SpecFind == InitFind /\ [][NextFind]_vars

\* The shutdown sequence: two writes into a Memory Tier of one entry, their
\* deferred writes, and a signal with or without an HTTP server; the final
\* flush may meet a failing disk.  The 5 second timer of HttpServer.stop is
\* the only step that is sure to happen.
InitShutdown == InitWith({TRUE}, {TRUE}, ShutdownMaxSize, {"writes"})

NextShutdown ==
  \/ /\ proc.phase # "exited"
     /\ \/ \E i \in {1, 3} : SetApi(i, ShutdownImmediates)
        \/ RunImmediate("none")
        \/ SyncTimer("none")
  \/ StartHttpServer
  \/ \E fault \in {"none", "apis"} :
       \/ Signal(fault)
       \/ CloseCallback(fault)
       \/ CloseTimeout(fault)
       \/ SignalAgain(fault)

SpecShutdown ==
  /\ InitShutdown
  /\ [][NextShutdown]_vars
  /\ WF_vars(\E fault \in {"none", "apis"} : CloseTimeout(fault))

\* Failing disk writes: two projects write into a Memory Tier of one entry
\* while the deferred and the periodic writes may meet a failing disk.
InitFaults == InitWith({TRUE}, {TRUE}, FaultsMaxSize, {"writes", "faults"})

NextFaults ==
  \/ \E i \in {1, 2, 4} : SetApi(i, FaultsImmediates)
  \/ \E fault \in {"none", "apis", "indexes"} : RunImmediate(fault)
  \/ \E fault \in {"none", "apis"} : SyncTimer(fault)

SpecFaults == InitFaults /\ [][NextFaults]_vars

\* a tick of the sync timer that meets no failure would write to the disk
\* document
TickWrites == svc.syncTimer /\ syncTimerCallback(svc, store, now, "none").store # store

\* The same with disk writes that succeed in the end: a queued setImmediate
\* callback eventually runs without meeting a failure, and as long as a tick
\* of the interval timer would write something, a tick without a failure
\* eventually happens (weak fairness of the tick, its enabling condition
\* written out as TickWrites).
SpecFaultsFair ==
  /\ SpecFaults
  /\ WF_vars(RunImmediate("none"))
  /\ ([]<>(~TickWrites) \/ []<><<SyncTimer("none")>>_vars)

\* The modes of an instance: caching switched off, both tiers, or memory
\* only because the store could not be obtained when the process restarted.
InitModes == InitWith(BOOLEAN, {TRUE}, ModesMaxSize, {})

NextModes ==
  \/ \E i \in {1, 3} : SetApi(i, ModesImmediates)
  \/ RunImmediate("none")
  \/ SyncTimer("none")
  \/ \E id \in {<<P1, 1>>, <<P1, 2>>} : GetApi(id, "none", ModesLookups)
  \/ AdvanceTime
  \/ \E fault \in {"none", "storage"} : Restart(fault)

SpecModes == InitModes /\ [][NextModes]_vars

\* The growth of the disk document: three keys written over time into a
\* Memory Tier of one entry, their deferred writes, expiry and a restart.
InitDisk == InitWith({TRUE}, {TRUE}, DiskMaxSize, {"boot"})

NextDisk ==
  \/ \E i \in {1, 3, 4} : SetApi(i, DiskImmediates)
  \/ RunImmediate("none")
  \/ AdvanceTime
  \/ Restart("none")

SpecDisk == InitDisk /\ [][NextDisk]_vars

\* Cache management: writes of three keys and their deferred writes,
\* interleaved with clear, clearProject and clearByUrl.
InitClear == InitWith({TRUE}, {TRUE}, ClearMaxSize, {"writes"})

NextClear ==
  \/ \E i \in {1, 3, 4} : SetApi(i, ClearImmediates)
  \/ RunImmediate("none")
  \/ Clear("none")
  \/ \E projectId \in Projects : ClearProject(projectId, "none")
  \/ \E url \in Urls : ClearByUrl(url, "none")

SpecClear == InitClear /\ [][NextClear]_vars

\* The refresh-cache tool: the interfaces of project 1 are refreshed through
\* their links, while the deferred writes run, projects are cleared and
\* time passes.
InitRefresh == InitWith({TRUE}, {TRUE}, RefreshMaxSize, {})

NextRefresh ==
  \/ \E url \in RefreshUrls, i \in 1..Len(Fetched) : RefreshCache(url, i, RefreshImmediates, RefreshLookups)
  \/ RunImmediate("none")
  \/ \E projectId \in Projects : ClearProject(projectId, "none")
  \/ AdvanceTime

SpecRefresh == InitRefresh /\ [][NextRefresh]_vars

\* The mock data pool: data is added to the global pool and to the pool of
\* project 1, and pools are cleared.
InitPool == InitWith({TRUE}, {TRUE}, PoolMaxSize, {})

NextPool ==
  \/ \E i \in 1..Len(PoolData), sc \in AddScopes : AddData(i, sc[1], sc[2])
  \/ \E sc \in ClearScopes : ClearDataPool(sc[1], sc[2])

SpecPool == InitPool /\ [][NextPool]_vars

\* The two sections of the document: the cache is written and cleared
\* while data is added to the pool and the pool is cleared.
InitSections == InitWith({TRUE}, {TRUE}, SectionsMaxSize, {"writes"})

NextSections ==
  \/ \E i \in {1, 4} : SetApi(i, SectionsImmediates)
  \/ RunImmediate("none")
  \/ Clear("none")
  \/ \E projectId \in Projects : ClearProject(projectId, "none")
  \/ \E projectId \in {<<>>} \cup Projects : ClearCache(projectId)
  \/ \E i \in {1, 3}, sc \in AddScopes : AddData(i, sc[1], sc[2])
  \/ \E sc \in ClearScopes : ClearDataPool(sc[1], sc[2])

SpecSections == InitSections /\ [][NextSections]_vars

\* Replaced entries: the interface 1 of project 1 is fetched as D1 and as D2
\* (another name, path and method under the same key) and looked up through
\* the three indexes.
InitIndex == InitWith({TRUE}, {TRUE}, IndexMaxSize, {})

NextIndex ==
  \/ \E i \in {1, 2, 3} : SetApi(i, IndexImmediates)
  \/ RunImmediate("none")
  \/ \E url \in Urls : FindByUrl(url, "none", IndexLookups)
  \/ \E q \in NameQueries : FindByName(q, "none", IndexLookups)
  \/ \E q \in PathQueries : FindByPath(q, "none", IndexLookups)
  \/ AdvanceTime

SpecIndex == InitIndex /\ [][NextIndex]_vars

\* clearProject: entries of two projects are put, written and looked up
\* through the indexes while projects are cleared.
InitReset == InitWith({TRUE}, {TRUE}, ResetMaxSize, {"indexes"})

NextReset ==
  \/ \E i \in {1, 4} : SetApi(i, ResetImmediates)
  \/ RunImmediate("none")
  \/ \E projectId \in Projects : ClearProject(projectId, "none")
  \/ \E url \in Urls : FindByUrl(url, "none", ResetLookups)
  \/ \E q \in PathQueries : FindByPath(q, "none", ResetLookups)
  \/ AdvanceTime

SpecReset == InitReset /\ [][NextReset]_vars

\* -------------------------------------------------------------- properties

\* what getApi(id) would return in the current state
GetApiResult(id) == getApi(svc, store, now, id[1], id[2], "none").result

\* a setImmediate callback that will write entry under key is still queued
Pending(key, entry) ==
  \E i \in 1..Len(immediates) : immediates[i] = [key |-> key, entry |-> entry]

Age(entry) == now - entry.metadata.cachedAt

\* the entry the Memory Tier physically holds under key, if any
InMemory(key) ==
  LET i == LruIndex(svc.memoryCache, key)
  IN  IF i = 0 THEN Undefined ELSE svc.memoryCache[i].value

\* C1 (as stated): whenever getApi(projectId, apiId) returns a hit, the
\* document it returns is the document of the most recent setApi for that key.
C1_HitIsLatestWrite ==
  \A id \in Ids :
    (GetApiResult(id) # Undefined /\ hist.lastSet[KeyOf(id)] # Undefined)
      => GetApiResult(id).entry.document = hist.lastSet[KeyOf(id)].document

\* C2 (as stated): an entry written by setApi whose deferred disk write is
\* still queued, that was not cleared and whose TTL has not elapsed, is
\* returned by getApi.
C2_Original ==
  \A id \in Ids :
    LET e == hist.lastSet[KeyOf(id)]
    IN  (/\ hist.status[KeyOf(id)] \in {"written", "evicted"}
         /\ Pending(KeyOf(id), e)
         /\ Age(e) <= Ttl)
          => (GetApiResult(id) # Undefined /\ GetApiResult(id).entry = e)

\* C2 (amended): an entry written by setApi whose deferred disk write is
\* still queued, that was not cleared, not evicted from the Memory Tier since
\* and whose TTL has not elapsed, is returned by getApi, from memory.
C2_ReadYourWrite ==
  \A id \in Ids :
    LET e == hist.lastSet[KeyOf(id)]
    IN  (/\ hist.status[KeyOf(id)] = "written"
         /\ Pending(KeyOf(id), e)
         /\ Age(e) <= Ttl)
          => GetApiResult(id) = Hit(e, "memory")

\* the deferred write of a held entry is queued behind another one
C2_Witness ==
  \E id \in Ids :
    /\ hist.status[KeyOf(id)] = "written"
    /\ Len(immediates) = 2
    /\ immediates[2] = [key |-> KeyOf(id), entry |-> hist.lastSet[KeyOf(id)]]
    /\ GetApiResult(id) = Hit(hist.lastSet[KeyOf(id)], "memory")

\* C3: getApi never returns an entry older than the TTL, and it returns
\* absent for a key whose stored copies (Memory Tier, disk document) are all
\* older than the TTL, although they are physically stored.
C3_ExpiredIsAbsent ==
  \A id \in Ids :
    LET m == InMemory(KeyOf(id))
        d == ObjGet(store.apis, KeyOf(id))
    IN  /\ GetApiResult(id) # Undefined => Age(GetApiResult(id).entry) <= Ttl
        /\ ((m # Undefined => Age(m) > Ttl) /\ (d # Undefined => Age(d) > Ttl))
             => GetApiResult(id) = Undefined

\* a key whose copies in both tiers are older than the TTL
C3_Witness ==
  \E id \in Ids :
    /\ InMemory(KeyOf(id)) # Undefined
    /\ Age(InMemory(KeyOf(id))) > Ttl
    /\ svc.persistentEnabled
    /\ ObjGet(store.apis, KeyOf(id)) # Undefined
    /\ Age(ObjGet(store.apis, KeyOf(id))) > Ttl
    /\ GetApiResult(id) = Undefined

\* C4: the Memory Tier never holds more than options.maxSize entries and none
\* of the three memory indexes more than twice that.
C4_Bounded ==
  /\ Len(svc.memoryCache) <= svc.max
  /\ Len(svc.urlIndex) <= 2 * svc.max
  /\ Len(svc.nameIndex) <= 2 * svc.max
  /\ Len(svc.pathIndex) <= 2 * svc.max

\* the Memory Tier and the name index are full and an entry was evicted
C4_Witness ==
  /\ Len(svc.memoryCache) = svc.max
  /\ Len(svc.nameIndex) = 2 * svc.max
  /\ \E k \in Keys : hist.status[k] = "evicted"

\* C6 (as stated, first half): once clearProject(pid) has returned, getApi
\* returns no hit for any id of project pid until a new setApi for pid.
C6_ClearedProjectStaysAbsent ==
  \A id \in Ids : hist.cleared[id[1]] => GetApiResult(id) = Undefined

\* C7: right after a restart with persistence enabled, getApi returns every
\* entry the disk document held whose age is within the TTL, and absent for
\* every entry it held whose age exceeds the TTL.
C7_Restart ==
  [][(boots' = boots + 1 /\ svc.persistentEnabled) =>
       \A id \in Ids :
         LET e == ObjGet(store.apis, KeyOf(id))
             r == getApi(svc', store', now', id[1], id[2], "none").result
         IN  e # Undefined =>
               IF now - e.metadata.cachedAt > Ttl THEN r = Undefined
               ELSE r # Undefined /\ r.entry = e]_vars

\* a restarted instance that has served nothing yet finds an entry of the disk
\* document that startup did not load into the Memory Tier
C7_Witness ==
  /\ boots = 1
  /\ StatsTotal(svc) = 0
  /\ svc.dirtyKeys = <<>>
  /\ \E id \in Ids :
       /\ ObjGet(store.apis, KeyOf(id)) # Undefined
       /\ InMemory(KeyOf(id)) = Undefined
       /\ GetApiResult(id) = Hit(ObjGet(store.apis, KeyOf(id)), "disk")

\* the entry the Memory Tier of instance s physically holds under key, if any
MemValue(s, key) ==
  LET i == LruIndex(s.memoryCache, key)
  IN  IF i = 0 THEN Undefined ELSE s.memoryCache[i].value

\* The step is a setApi of a key the Memory Tier does not hold, made while it
\* holds options.maxSize entries, and it removes exactly the entry of key
\* oldest and leaves every other entry as it was.
EvictsExactly(i, oldest) ==
  LET k == KeyOf(<<Fetched[i].projectId, Fetched[i].apiId>>)
  IN  (/\ SetApi(i, LruImmediates)
       /\ k \notin LruKeys(svc.memoryCache)
       /\ Len(svc.memoryCache) = svc.max)
        => /\ LruKeys(svc'.memoryCache) = (LruKeys(svc.memoryCache) \ {oldest}) \cup {k}
           /\ oldest \in LruKeys(svc.memoryCache)
           /\ \A j \in LruKeys(svc.memoryCache) \ {oldest} :
                MemValue(svc', j) = MemValue(svc, j)

\* C5 (as stated): a setApi of a new key into a full Memory Tier evicts
\* exactly one entry, the one whose last setApi or lookup hit is the oldest,
\* and every other entry stays in the Memory Tier.
C5_Original == [][\A i \in {1, 3, 4} : EvictsExactly(i, Head(hist.accessed))]_vars

\* C5 (amended): a setApi of a new key into a full Memory Tier evicts exactly
\* one entry, the one least recently read or written in the Memory Tier,
\* where the reads of the periodic sync count as well as setApi and the
\* lookups, and every other entry stays in the Memory Tier.
C5_EvictsLeastRecentlyTouched == [][\A i \in {1, 3, 4} : EvictsExactly(i, Head(hist.touched))]_vars

\* an entry was evicted from the full Memory Tier after the periodic sync had
\* read the entries in another order than they were last written or hit
C5_Witness ==
  /\ Len(svc.memoryCache) = svc.max
  /\ \E k \in Keys : hist.status[k] = "evicted"
  /\ Len(hist.touched) = svc.max
  /\ hist.touched # hist.accessed

\* setApi was called for three distinct keys, in the order hist.puts, and
\* nothing else was called, on a Memory Tier of two entries
ThreePuts ==
  /\ svc.max = 2
  /\ Len(hist.puts) = 3
  /\ Cardinality({hist.puts[1], hist.puts[2], hist.puts[3]}) = 3

\* C9 (as stated): with maxSize 2, after setApi of three distinct keys A, B,
\* C and nothing read in between, A is not in the Memory Tier; getApi(A)
\* returns A with source disk when persistence is enabled and absent when it
\* is disabled.
C9_Original ==
  \A id \in Ids :
    (ThreePuts /\ KeyOf(id) = hist.puts[1]) =>
      /\ InMemory(KeyOf(id)) = Undefined
      /\ GetApiResult(id) = IF svc.persistentEnabled
                            THEN Hit(hist.lastSet[KeyOf(id)], "disk")
                            ELSE Undefined

\* C9 (amended): ... A is not in the Memory Tier; with persistence enabled
\* getApi(A) returns A with source disk once A was written to the disk
\* document and while it is within its TTL, and absent before that; with
\* persistence disabled it returns absent.
C9_EvictedReadFromDisk ==
  \A id \in Ids :
    (ThreePuts /\ KeyOf(id) = hist.puts[1] /\ Age(hist.lastSet[KeyOf(id)]) <= Ttl) =>
      /\ InMemory(KeyOf(id)) = Undefined
      /\ GetApiResult(id) = IF svc.persistentEnabled /\ ObjHas(store.apis, KeyOf(id))
                            THEN Hit(hist.lastSet[KeyOf(id)], "disk")
                            ELSE Undefined

\* after the three puts the first key's deferred write has run
C9_Witness ==
  \E id \in Ids :
    /\ ThreePuts
    /\ KeyOf(id) = hist.puts[1]
    /\ svc.persistentEnabled
    /\ ObjHas(store.apis, KeyOf(id))
    /\ GetApiResult(id) = Hit(hist.lastSet[KeyOf(id)], "disk")

\* the primary key of the fetched API f
KeyOfFetched(f) == getApiKey(f.projectId, f.apiId)

\* The entry of f is in the disk document with its URL index entry and
\* within its TTL, and neither the Memory Tier nor the memory URL index
\* holds it.
OnDiskOnly(f) ==
  /\ ObjHas(store.apis, KeyOfFetched(f))
  /\ Age(ObjGet(store.apis, KeyOfFetched(f))) <= Ttl
  /\ MapGet(store.urlIndex, getUrlKey(f.url)) = IndexEntry(f.projectId, f.apiId)
  /\ InMemory(KeyOfFetched(f)) = Undefined
  /\ LruIndex(svc.urlIndex, getUrlKey(f.url)) = 0

\* findByUrl(url) on instance s and disk document d returns entry e with
\* source disk and back-fills the memory URL index and the Memory Tier, and
\* the findByUrl(url) after that returns e with source memory.
DiskThenMemory(s, d, t, f, e) ==
  LET r1 == findByUrl(s, d, t, f.url, "none")
      r2 == findByUrl(r1.svc, r1.store, t, f.url, "none")
  IN  /\ r1.result = Hit(e, "disk")
      /\ MemValue(r1.svc, KeyOfFetched(f)) = e
      /\ LruGet(r1.svc.urlIndex, getUrlKey(f.url), t).value = IndexEntry(f.projectId, f.apiId)
      /\ r2.result = Hit(e, "memory")

\* findByUrl(url) right after setApi of the entry returns it with source memory
PutThenMemory(f) ==
  findByUrl(setApi(svc, Entry(f, now), now), store, now, f.url, "none").result
    = Hit(Entry(f, now), "memory")

\* C8 (as stated): for an entry put with a URL, findByUrl(url) returns it with
\* source memory; once it is flushed and the process restarted, the next
\* findByUrl(url) returns the same entry with source disk and back-fills the
\* memory URL index and the Memory Tier, so that the findByUrl(url) after
\* that returns source memory.
C8_Original ==
  [][\A i \in {1, 3} :
       LET f == Fetched[i]
           e == ObjGet(store.apis, KeyOfFetched(f))
       IN  /\ PutThenMemory(f)
           /\ (/\ boots' = boots + 1
               /\ e # Undefined
               /\ Age(e) <= Ttl
               /\ MapGet(store.urlIndex, getUrlKey(f.url)) = IndexEntry(f.projectId, f.apiId))
                => DiskThenMemory(svc', store', now', f, e)]_vars

\* C8 (amended): for an entry put with a URL, findByUrl(url) returns it with
\* source memory; once it is flushed and neither the Memory Tier nor the
\* memory URL index holds it, the next findByUrl(url) returns the same entry
\* with source disk and back-fills the memory URL index and the Memory Tier,
\* so that the findByUrl(url) after that returns source memory; an entry the
\* Memory Tier holds while the memory URL index does not (startup brought it
\* back) is returned with source memory at once.
C8_UrlLookupTiers ==
  \A i \in {1, 3} :
    LET f == Fetched[i]
        m == InMemory(KeyOfFetched(f))
    IN  /\ PutThenMemory(f)
        /\ OnDiskOnly(f) => DiskThenMemory(svc, store, now, f, ObjGet(store.apis, KeyOfFetched(f)))
        /\ (/\ m # Undefined
            /\ Age(m) <= Ttl
            /\ LruIndex(svc.urlIndex, getUrlKey(f.url)) = 0
            /\ MapGet(store.urlIndex, getUrlKey(f.url)) = IndexEntry(f.projectId, f.apiId))
             => findByUrl(svc, store, now, f.url, "none").result = Hit(m, "memory")

\* a restarted instance that has served nothing yet did not load a flushed
\* entry into the Memory Tier, and finds it through the disk URL index
C8_Witness ==
  /\ boots = 1
  /\ StatsTotal(svc) = 0
  /\ svc.dirtyKeys = <<>>
  /\ \E i \in {1, 3} :
       /\ OnDiskOnly(Fetched[i])
       /\ findByUrl(svc, store, now, Fetched[i].url, "none").result
            = Hit(ObjGet(store.apis, KeyOfFetched(Fetched[i])), "disk")

\* C10: after setApi(entry) on an enabled cache the Memory Tier holds the
\* entry under its primary key, the name and path indexes and (for an entry
\* with a URL) the URL index map its keys to its (projectId, apiId), the
\* primary key is in the dirty set, and findByUrl, findByName and findByPath
\* with the entry's own url, name and method + path return the entry.
C10_SetApiPostcondition ==
  \A i \in 1..Len(Fetched) :
    LET f  == Fetched[i]
        e  == Entry(f, now)
        s1 == setApi(svc, e, now)
        ix == IndexEntry(f.projectId, f.apiId)
    IN  svc.enabled =>
          /\ MemValue(s1, KeyOfFetched(f)) = e
          /\ LruGet(s1.nameIndex, getNameKey(f.projectId, f.name), now).value = ix
          /\ LruGet(s1.pathIndex, getPathKey(f.projectId, f.method, f.path), now).value = ix
          /\ \E j \in 1..Len(s1.dirtyKeys) : s1.dirtyKeys[j] = KeyOfFetched(f)
          /\ findByName(s1, store, now, f.projectId, f.name, "none").result = Hit(e, "memory")
          /\ findByPath(s1, store, now, f.projectId, f.method, f.path, "none").result
               = Hit(e, "memory")
          /\ f.url # <<>> =>
               /\ LruGet(s1.urlIndex, getUrlKey(f.url), now).value = ix
               /\ findByUrl(s1, store, now, f.url, "none").result = Hit(e, "memory")

\* setApi has just stored an entry: its deferred write is queued, its key is
\* dirty and the three lookups return it
C10_Witness ==
  \E i \in {1, 3} :
    LET f == Fetched[i]
        e == Entry(f, now)
    IN  /\ InMemory(KeyOfFetched(f)) = e
        /\ Pending(KeyOfFetched(f), e)
        /\ \E j \in 1..Len(svc.dirtyKeys) : svc.dirtyKeys[j] = KeyOfFetched(f)
        /\ findByUrl(svc, store, now, f.url, "none").result = Hit(e, "memory")
        /\ findByName(svc, store, now, f.projectId, f.name, "none").result = Hit(e, "memory")
        /\ findByPath(svc, store, now, f.projectId, f.method, f.path, "none").result
             = Hit(e, "memory")

\* ------------------------------------------------------------------- C11

\* the name or the path of entry contains keyword, letter case ignored
ContainsKeyword(entry, keyword) ==
  \/ includes(toLowerCase(entry.metadata.name), toLowerCase(keyword))
  \/ includes(toLowerCase(entry.metadata.path), toLowerCase(keyword))

\* the entries of projectId the Memory Tier holds (and has not aged out)
\* whose name or path contains keyword
HeldMatches(projectId, keyword) ==
  {svc.memoryCache[i].value : i \in
     {j \in 1..Len(svc.memoryCache) :
        /\ ~LruIsStale(svc.memoryCache[j], now)
        /\ svc.memoryCache[j].value.metadata.projectId = projectId
        /\ ContainsKeyword(svc.memoryCache[j].value, keyword)}}

\* the name index, in memory or on disk, has an entry for the normalized name
ExactNameIndex(projectId, name) ==
  ResolveIndex(svc, store, now, "nameIndex", getNameKey(projectId, name), TRUE, "none").index

\* C11: findByName(projectId, keyword) that finds no exact name-index match
\* returns, with source memory, an entry of the same project held in the
\* Memory Tier whose name or path contains the keyword (letter case ignored)
\* whenever the Memory Tier holds such an entry, and it never returns an entry
\* that only the disk document holds.
C11_FuzzyScansMemoryOnly ==
  \A projectId \in Projects : \A keyword \in FuzzyKeywords :
    LET r == findByName(svc, store, now, projectId, keyword, "none").result
    IN  ExactNameIndex(projectId, keyword) = Undefined =>
          /\ HeldMatches(projectId, keyword) # {} =>
                /\ r # Undefined
                /\ r.source = "memory"
                /\ r.entry \in HeldMatches(projectId, keyword)
          /\ r # Undefined =>
                /\ r.source = "memory"
                /\ InMemory(getApiKey(r.entry.metadata.projectId, r.entry.metadata.apiId))
                     = r.entry

\* The Memory Tier holds "Cart" and only the disk document holds "User": the
\* keyword "/c" finds "Cart" by its path, the keyword "ser" finds nothing.
C11_Witness ==
  /\ InMemory(KeyOfFetched(Fetched[3])) # Undefined
  /\ InMemory(KeyOfFetched(Fetched[1])) = Undefined
  /\ ObjHas(store.apis, KeyOfFetched(Fetched[1]))
  /\ Age(ObjGet(store.apis, KeyOfFetched(Fetched[1]))) <= Ttl
  /\ ExactNameIndex(P1, <<"/", "c">>) = Undefined
  /\ findByName(svc, store, now, P1, <<"/", "c">>, "none").result
       = Hit(InMemory(KeyOfFetched(Fetched[3])), "memory")
  /\ findByName(svc, store, now, P1, <<"s", "e", "r">>, "none").result = Undefined

\* ------------------------------------------------------------------- C12

\* C12 (as stated): when the shutdown path ends without a disk write failure,
\* every entry written by setApi before the shutdown and not cleared since is
\* in the disk document, and no key is left dirty.
C12_NothingLostAtExit ==
  (proc.phase = "exited" /\ proc.flush = "none") =>
    /\ svc.dirtyKeys = <<>>
    /\ \A k \in Keys :
         hist.status[k] \in {"written", "evicted"} =>
           ObjGet(store.apis, k) = hist.lastSet[k]

\* ------------------------------------------------------------------- C20

\* C20: after SIGTERM or SIGINT the process always eventually exits, whether
\* or not the callback of httpServer.close ever fires and whether or not the
\* flush meets a failing disk.
C20_SignalLeadsToExit == (proc.phase # "running") ~> (proc.phase = "exited")

\* The process exited because the 5 second timer fired, after a flush that
\* met a failing disk and left a key dirty.
C20_Witness ==
  /\ proc.phase = "exited"
  /\ proc.stop = "timeout"
  /\ proc.flush = "apis"
  /\ svc.dirtyKeys # <<>>

\* ------------------------------------------------------------------- C13

\* C13 (as stated): a tick of the sync timer that finds a non-empty dirty set
\* and meets no disk write failure writes the Memory Tier entry of every
\* dirty key to the disk document and leaves the dirty set empty.
C13_TickEmptiesDirtySet ==
  [][(SyncTimer("none") /\ svc.dirtyKeys # <<>>) =>
       /\ svc'.dirtyKeys = <<>>
       /\ \A i \in 1..Len(svc.dirtyKeys) :
            MemValue(svc, svc.dirtyKeys[i]) # Undefined =>
              ObjGet(store'.apis, svc.dirtyKeys[i]) = MemValue(svc, svc.dirtyKeys[i])]_vars

\* ------------------------------------------------------------------- C14

\* C14 (as stated): when a disk write of an entry fails, the Memory Tier and
\* the memory indexes are unchanged, the key stays in the dirty set, and the
\* entry is written to disk by the next sync attempt that succeeds.
C14_FailedWriteIsRetried ==
  [][/\ RunImmediate("apis") =>
          /\ svc'.memoryCache = svc.memoryCache
          /\ svc'.urlIndex = svc.urlIndex
          /\ svc'.nameIndex = svc.nameIndex
          /\ svc'.pathIndex = svc.pathIndex
          /\ store' = store
          /\ svc'.dirtyKeys = svc.dirtyKeys
     /\ SyncTimer("none") =>
          \A k \in Keys :
            (hist.failed[k] # Undefined /\ hist.failed[k] = hist.lastSet[k]) =>
              ObjGet(store'.apis, k) = hist.failed[k]]_vars

\* ------------------------------------------------------------------- C15

\* C15 (as stated): no call of getApi, findByUrl, findByName or findByPath
\* raises an error to its caller, whichever disk read or write fails during
\* the call.  (setApi has no disk access of its own: C18.)
C15_NoLookupThrows ==
  \A fault \in Faults :
    /\ \A id \in Ids : ~getApi(svc, store, now, id[1], id[2], fault).threw
    /\ \A url \in Urls : ~findByUrl(svc, store, now, url, fault).threw
    /\ \A q \in NameQueries : ~findByName(svc, store, now, q[1], q[2], fault).threw
    /\ \A q \in PathQueries : ~findByPath(svc, store, now, q[1], q[2], q[3], fault).threw

\* ------------------------------------------------------------------- C16

\* getStorageInstance() threw when the cache of this process was constructed
Degraded == proc.storage = "failed"

\* C16: if obtaining the disk store fails at construction, persistence stays
\* off for the lifetime of the instance: no sync timer, no deferred write is
\* scheduled, the disk document is never read or written (not even by a
\* lookup made while reading it would fail), the stats have no disk section,
\* and setApi / getApi keep working from the Memory Tier.
C16_DegradedToMemoryOnly ==
  /\ [](Degraded =>
          /\ ~svc.persistentEnabled
          /\ ~svc.persistentStore
          /\ ~svc.syncTimer
          /\ immediates = <<>>
          /\ getStats(svc, store).persistent = Undefined
          /\ \A id \in Ids : \A fault \in Faults :
               LET r == getApi(svc, store, now, id[1], id[2], fault)
               IN  /\ ~r.threw
                   /\ r.store = store
                   /\ r.result # Undefined =>
                        r.result = Hit(InMemory(KeyOf(id)), "memory")
          /\ \A i \in DOMAIN Fetched :
               LET f == Fetched[i]
                   s2 == setApi(svc, Entry(f, now), now)
               IN  /\ ~setApiSchedules(svc)
                   /\ svc.enabled =>
                        getApi(s2, store, now, f.projectId, f.apiId, "read").result
                          = Hit(Entry(f, now), "memory"))
  /\ [][(Degraded /\ boots' = boots) => (Degraded' /\ store' = store)]_vars

\* In a process whose store could not be obtained the disk document still
\* holds an entry of the previous process, the Memory Tier holds another
\* one written since, and getApi finds only the latter.
C16_Witness ==
  /\ Degraded
  /\ svc.options.persistent
  /\ \E i, j \in {1, 3} :
       /\ ObjHas(store.apis, KeyOfFetched(Fetched[i]))
       /\ Age(ObjGet(store.apis, KeyOfFetched(Fetched[i]))) <= Ttl
       /\ InMemory(KeyOfFetched(Fetched[i])) = Undefined
       /\ GetApiResult(<<Fetched[i].projectId, Fetched[i].apiId>>) = Undefined
       /\ InMemory(KeyOfFetched(Fetched[j])) # Undefined
       /\ ~ObjHas(store.apis, KeyOfFetched(Fetched[j]))
       /\ GetApiResult(<<Fetched[j].projectId, Fetched[j].apiId>>)
            = Hit(InMemory(KeyOfFetched(Fetched[j])), "memory")

\* ------------------------------------------------------------------- C17

\* what every lookup of the four kinds would return in the current state
LookupResults ==
  {getApi(svc, store, now, id[1], id[2], "none") : id \in Ids}
    \cup {findByUrl(svc, store, now, url, "none") : url \in Urls}
    \cup {findByName(svc, store, now, q[1], q[2], "none") :
            q \in NameQueries \cup (Projects \X FuzzyKeywords)}
    \cup {findByPath(svc, store, now, q[1], q[2], q[3], "none") : q \in PathQueries}

\* lookup r raised the hit counter of the tier its result names, or the
\* memory-miss counter when it returned nothing
Counted(r) ==
  IF r.result = Undefined
  THEN r.svc.stats.memory.misses > svc.stats.memory.misses
  ELSE IF r.result.source = "memory"
       THEN r.svc.stats.memory.hits > svc.stats.memory.hits
       ELSE r.svc.stats.persistent.hits > svc.stats.persistent.hits

\* C17 (as stated): every lookup that returns an entry increments the hit
\* counter of the tier named in its result, and every lookup that returns
\* absent increments the memory-miss counter.
C17_Original == \A r \in LookupResults : Counted(r)

\* C17 (amended): that holds for the lookups of an enabled cache; a cache
\* constructed with enabled = false answers every lookup with absent and
\* changes no counter.
C17_EnabledLookupsCounted ==
  \A r \in LookupResults :
    IF svc.enabled THEN Counted(r)
    ELSE r.result = Undefined /\ r.svc.stats = svc.stats

\* An enabled cache after a getApi that was counted as a disk hit, in a state
\* where two lookups return an entry from memory, one from disk and one
\* nothing.
C17_Witness ==
  /\ svc.enabled
  /\ svc.stats.persistent.hits = 1
  /\ \E r \in LookupResults : r.result # Undefined /\ r.result.source = "disk"
  /\ \E r \in LookupResults : r.result = Undefined
  /\ \E r1, r2 \in LookupResults :
       /\ r1.result # Undefined /\ r1.result.source = "memory"
       /\ r2.result # Undefined /\ r2.result.source = "memory"
       /\ r1.svc.stats # r2.svc.stats

\* ------------------------------------------------------------------- C18

\* C18: setApi never touches the disk document before it returns: the
\* document is the same at its return as at its call, and with persistence
\* on the write of the entry is left to a callback queued for a later step.
C18_SetApiLeavesDiskAlone ==
  [][\A i \in {1, 2, 4} :
       SetApi(i, CoreImmediates) =>
         /\ store' = store
         /\ setApiSchedules(svc) =>
              immediates' = Append(immediates,
                                   [key |-> KeyOfFetched(Fetched[i]),
                                    entry |-> Entry(Fetched[i], now)])
         /\ ~setApiSchedules(svc) => immediates' = immediates]_vars

\* setApi has returned: the Memory Tier holds an entry the disk document
\* does not hold yet, and the write of that entry is queued.
C18_Witness ==
  \E i \in {1, 2, 4} :
    LET k == KeyOfFetched(Fetched[i])
    IN  /\ InMemory(k) # Undefined
        /\ InMemory(k) = hist.lastSet[k]
        /\ ObjGet(store.apis, k) # InMemory(k)
        /\ Pending(k, InMemory(k))
        /\ immediates[Len(immediates)] = [key |-> k, entry |-> InMemory(k)]

\* ------------------------------------------------------------------- C19

\* the startup load finds an expired entry in document d and so runs the
\* cleanup pass
CleanupRuns(d, t) == \E i \in 1..Len(d.apis) : isExpired(d.apis[i].value, t)

\* C19 (as stated): after a cleanup pass at startup load the 'apis' map of
\* the disk document holds no more than persistentMaxSize entries, whatever
\* number of distinct keys was written.
C19_DiskBounded ==
  [][(boots' = boots + 1 /\ svc'.persistentStore /\ CleanupRuns(store, now)) =>
       Len(store'.apis) <= PersistentMaxSize]_vars

\* ------------------------------------------------------------------- C24

IsDirty(key) == \E j \in 1..Len(svc.dirtyKeys) : svc.dirtyKeys[j] = key

\* C24 (as stated): for every key the Memory Tier holds with an entry within
\* its TTL, the key is in the dirty set, or a deferred write of that entry is
\* pending, or the disk document holds exactly that entry under the key.
C24_CleanKeysAreOnDisk ==
  svc.persistentStore =>
    \A k \in Keys :
      (InMemory(k) # Undefined /\ ~isExpired(InMemory(k), now)) =>
        \/ IsDirty(k)
        \/ Pending(k, InMemory(k))
        \/ ObjGet(store.apis, k) = InMemory(k)

\* ------------------------------------------------------------------- C25

\* document d holds entry under key and, in its three index maps, the keys
\* of the entry pointing to the entry's (projectId, apiId)
FullyOnDisk(d, key, entry) ==
  LET m == entry.metadata
      ix == IndexEntry(m.projectId, m.apiId)
  IN  /\ ObjGet(d.apis, key) = entry
      /\ m.url # <<>> => MapGet(d.urlIndex, getUrlKey(m.url)) = ix
      /\ MapGet(d.nameIndex, getNameKey(m.projectId, m.name)) = ix
      /\ MapGet(d.pathIndex, getPathKey(m.projectId, m.method, m.path)) = ix

\* C25 (as stated): whenever a disk write of an entry removes its key from
\* the dirty set, the disk document holds the entry under its key and the
\* disk index maps hold the entry's URL, name and path keys.
C25_CleanMeansFullyOnDisk ==
  [][\A fault \in {"none", "apis", "indexes"} :
       (RunImmediate(fault) /\ IsDirty(Head(immediates).key)
          /\ \A j \in 1..Len(svc'.dirtyKeys) : svc'.dirtyKeys[j] # Head(immediates).key) =>
         FullyOnDisk(store', Head(immediates).key, Head(immediates).entry)]_vars

\* ------------------------------------------------------------------- C26

\* C26 (as stated): with persistence on and disk writes that succeed in the
\* end, every entry written by setApi and not overwritten is eventually in
\* the disk document with its key out of the dirty set, also when it was
\* evicted before its write ran or an earlier write of it failed.
C26_EventuallyOnDisk ==
  \A i \in {1, 2, 4} :
    (hist.lastSet[KeyOfFetched(Fetched[i])] = Entry(Fetched[i], 0))
      ~> \/ /\ ObjGet(store.apis, KeyOfFetched(Fetched[i])) = Entry(Fetched[i], 0)
            /\ ~IsDirty(KeyOfFetched(Fetched[i]))
         \/ hist.lastSet[KeyOfFetched(Fetched[i])] # Entry(Fetched[i], 0)

\* ------------------------------------------------------------------- C27

\* C27 (as stated): a deferred write scheduled by setApi before a clear,
\* clearProject or clearByUrl never re-creates the cleared entry: once the
\* clear has returned, the disk document holds nothing under a key the clear
\* removed until a new setApi for that key.
C27_ClearedStaysOffDisk ==
  \A k \in Keys : hist.status[k] = "cleared" => ~ObjHas(store.apis, k)

\* ------------------------------------------------------------------- C28

\* C28: after the constructor has run with persistence on, the Memory Tier
\* holds only entries of the disk document that are within their TTL, and
\* the 'apis' map of the document has lost every expired entry and kept
\* every other entry as it was; the index maps are as they were.
C28_StartupLoad ==
  [][(boots' = boots + 1 /\ svc'.persistentStore) =>
       /\ \A i \in 1..Len(svc'.memoryCache) :
            /\ ~isExpired(svc'.memoryCache[i].value, now)
            /\ ObjGet(store.apis, svc'.memoryCache[i].key) = svc'.memoryCache[i].value
       /\ \A k \in Keys :
            ObjGet(store'.apis, k) =
              IF ObjHas(store.apis, k) /\ ~isExpired(ObjGet(store.apis, k), now)
              THEN ObjGet(store.apis, k) ELSE Undefined
       /\ Len(store'.apis) <= Len(store.apis)
       /\ store'.urlIndex = store.urlIndex
       /\ store'.nameIndex = store.nameIndex
       /\ store'.pathIndex = store.pathIndex]_vars

\* A process has just started over a document that held an expired entry and
\* entries within their TTL: the expired one is gone from the document, the
\* others are still there and one of them is in the Memory Tier.
C28_Witness ==
  /\ boots = 1
  /\ svc.persistentStore
  /\ svc.dirtyKeys = <<>>
  /\ hist.bootExpired # {}
  /\ \A k \in hist.bootExpired : ~ObjHas(store.apis, k) /\ InMemory(k) = Undefined
  /\ Len(store.apis) = 2
  /\ Len(svc.memoryCache) = 1
  /\ \E k \in Keys : InMemory(k) # Undefined /\ InMemory(k) = ObjGet(store.apis, k)

\* ------------------------------------------------------------------- C29

\* C29 (as stated): no lookup (getApi, findByUrl, findByPath, findByName with
\* its fuzzy scan) returns an entry whose age exceeds the TTL.
C29_NoExpiredEntryReturned ==
  \A r \in LookupResults : r.result # Undefined => Age(r.result.entry) <= Ttl

\* ------------------------------------------------------------------- C30

\* getApi(id) goes to the disk document and finds there, under the key of
\* id, an entry whose age exceeds the TTL
FindsExpiredOnDisk(id) ==
  /\ svc.enabled /\ svc.persistentEnabled /\ svc.persistentStore
  /\ LET m == LruGet(svc.memoryCache, KeyOf(id), now).value
     IN  m = Undefined \/ isExpired(m, now)
  /\ ObjHas(store.apis, KeyOf(id))
  /\ isExpired(ObjGet(store.apis, KeyOf(id)), now)

\* getApi(id) returns absent and removes the key of id, and nothing else,
\* from the 'apis' map of the disk document
RemovesExpiredFromDisk(id) ==
  LET r == getApi(svc, store, now, id[1], id[2], "none")
  IN  /\ r.result = Undefined
      /\ ~ObjHas(r.store.apis, KeyOf(id))
      /\ \A k \in Keys \ {KeyOf(id)} : ObjGet(r.store.apis, k) = ObjGet(store.apis, k)
      /\ Len(r.store.apis) = Len(store.apis) - 1
      /\ r.store.urlIndex = store.urlIndex
      /\ r.store.nameIndex = store.nameIndex
      /\ r.store.pathIndex = store.pathIndex

\* C30 (as stated): when getApi finds for the requested key a disk entry
\* whose age exceeds the TTL, it returns absent and removes exactly that key
\* from the 'apis' map of the disk document, and the Memory Tier holds the
\* same entries after the read as before.
C30_Original ==
  \A id \in Ids :
    FindsExpiredOnDisk(id) =>
      /\ RemovesExpiredFromDisk(id)
      /\ \A k \in Keys :
           MemValue(getApi(svc, store, now, id[1], id[2], "none").svc, k) = InMemory(k)

\* C30 (amended): the same for the disk document; in the Memory Tier the
\* read leaves the entries of all other keys as they were, drops the entry
\* of the requested key when the LRU has aged it out, and keeps it otherwise.
C30_LazyDiskExpiry ==
  \A id \in Ids :
    FindsExpiredOnDisk(id) =>
      /\ RemovesExpiredFromDisk(id)
      /\ \A k \in Keys :
           MemValue(getApi(svc, store, now, id[1], id[2], "none").svc, k) =
             IF k = KeyOf(id) /\ LruGet(svc.memoryCache, k, now).value = Undefined
             THEN Undefined ELSE InMemory(k)

\* The disk document holds an expired entry and the Memory Tier still holds
\* the same entry, aged out: getApi removes both.
C30_Witness ==
  \E id \in Ids :
    /\ FindsExpiredOnDisk(id)
    /\ InMemory(KeyOf(id)) # Undefined
    /\ MemValue(getApi(svc, store, now, id[1], id[2], "none").svc, KeyOf(id)) = Undefined
    /\ ~ObjHas(getApi(svc, store, now, id[1], id[2], "none").store.apis, KeyOf(id))
    /\ svc.stats.memory.misses > 0

\* ------------------------------------------------------------------- C22

\* the tool returned r: a document fetched from the origin, which the
\* Memory Tier now holds under key
ReturnsFetched(r, fetched, key) ==
  /\ ~r.fromCache
  /\ r.document = fetched.document
  /\ MemValue(r.svc, key) # Undefined
  /\ MemValue(r.svc, key).document = fetched.document

\* C22: the refresh-cache tool, for any valid Apifox link and any prior
\* cache state, returns a document freshly fetched from the origin API, never
\* a previously cached one, and afterwards the cache holds the freshly
\* fetched document for that interface.
C22_RefreshFetchesAnew ==
  \A url \in RefreshUrls, i \in 1..Len(Fetched) :
    Answers(url, i) =>
      ReturnsFetched(refreshCache(svc, store, now, url, Fetched[i]), Fetched[i],
                     getApiKey(Fetched[i].projectId, Fetched[i].apiId))

\* ------------------------------------------------------------------- C21

\* a step of CacheService.clear, CacheService.clearProject or clearCache
ClearsCache ==
  \/ Clear("none")
  \/ \E projectId \in Projects : ClearProject(projectId, "none")
  \/ \E projectId \in {<<>>} \cup Projects : ClearCache(projectId)

\* a step of clearDataPool (any scope) or DataPoolService.addData
WritesDataPool ==
  \/ \E i \in 1..Len(PoolData), sc \in AddScopes : AddData(i, sc[1], sc[2])
  \/ \E sc \in ClearScopes : ClearDataPool(sc[1], sc[2])

\* C21: CacheService.clear, CacheService.clearProject and clearCache leave
\* the 'mockDataPool' section of the document unchanged, and clearDataPool
\* (any scope) and DataPoolService.addData leave the 'cache' section unchanged.
C21_SectionsAreIsolated ==
  [][/\ ClearsCache => mockDataPool' = mockDataPool
     /\ WritesDataPool => store' = store]_vars

\* The cache was cleared and is empty on disk while the pool holds data.
C21_Witness ==
  /\ \E k \in Keys : hist.status[k] = "cleared"
  /\ store.apis = <<>>
  /\ mockDataPool.global # <<>>
  /\ mockDataPool.projects # <<>>

\* ------------------------------------------------------------------- C23

\* the pool of a project; projectId <<>>: not given
ProjectPool(projectId) ==
  IF projectId # <<>> /\ ObjHas(mockDataPool.projects, projectId)
  THEN ObjGet(mockDataPool.projects, projectId)
  ELSE <<>>

\* the values a pool holds for a field: those under the key the field
\* matches, none if it matches no key
ValuesFor(pool, fieldName) == PoolLookup(pool, normalizeFieldName(fieldName)).values

\* C23: getData(field, projectId) returns the values of the project pool
\* whenever the project pool holds values for the field, the values of the
\* global pool whenever the project pool holds none, and an empty list only
\* when neither pool holds a value for the field.
C23_ProjectBeforeGlobal ==
  \A fieldName \in PoolFields, projectId \in {<<>>} \cup Projects :
    \A result \in getData(mockDataPool, fieldName, projectId) :
      LET project == ValuesFor(ProjectPool(projectId), fieldName)
          global == ValuesFor(mockDataPool.global, fieldName)
      IN  /\ project # <<>> => result \in shuffleArray(project)
          /\ project = <<>> /\ global # <<>> => result \in shuffleArray(global)
          /\ result = <<>> => project = <<>> /\ global = <<>>

\* ------------------------------------------------------------------- C31

\* the exact match of findByName(projectId, name) gave an entry: the name
\* index resolves and getApiInternal finds its target
ExactMatch(r, projectId) ==
  /\ r.index # Undefined
  /\ getApiInternal(r.svc, store, now, projectId, r.index.apiId, "none").result # Undefined

\* the entry a lookup returned has the url, the name, the method and path asked for
MatchesUrl(r, url) == r.result # Undefined => r.result.entry.metadata.url = url

MatchesName(r, projectId, name) ==
  r.result # Undefined =>
    getNameKey(projectId, r.result.entry.metadata.name) = getNameKey(projectId, name)

MatchesPath(r, projectId, method, path) ==
  r.result # Undefined =>
    getPathKey(projectId, r.result.entry.metadata.method, r.result.entry.metadata.path)
      = getPathKey(projectId, method, path)

\* C31: whenever findByUrl(url), findByName(projectId, name) by exact match
\* or findByPath(projectId, method, path) returns an entry, the metadata of
\* the returned entry matches the lookup key, for any sequence of puts that
\* replace an entry under the same primary key with different metadata.
C31_IndexHitMatchesKey ==
  /\ \A url \in Urls : MatchesUrl(findByUrl(svc, store, now, url, "none"), url)
  /\ \A q \in NameQueries :
       ExactMatch(ResolveIndex(svc, store, now, "nameIndex", getNameKey(q[1], q[2]), TRUE,
                               "none"), q[1])
         => MatchesName(findByName(svc, store, now, q[1], q[2], "none"), q[1], q[2])
  /\ \A q \in PathQueries :
       MatchesPath(findByPath(svc, store, now, q[1], q[2], q[3], "none"), q[1], q[2], q[3])

\* ------------------------------------------------------------------- C32
\* hist.unindexed: the keys that were not put again since the last clearProject.

\* a lookup did not return the entry of a key whose index entries were reset
MissesUnindexed(r) ==
  r.result # Undefined =>
    getApiKey(r.result.entry.metadata.projectId, r.result.entry.metadata.apiId)
      \notin hist.unindexed

\* C32: clearProject(pid) resets the URL, name and path indexes wholesale in
\* both tiers, so the lookups through an index miss for every entry, of
\* other projects too, that was not put again since.
C32_IndexesResetUntilPut ==
  /\ \A url \in Urls : MissesUnindexed(findByUrl(svc, store, now, url, "none"))
  /\ \A q \in PathQueries :
       MissesUnindexed(findByPath(svc, store, now, q[1], q[2], q[3], "none"))
  /\ \A q \in NameQueries :
       ExactMatch(ResolveIndex(svc, store, now, "nameIndex", getNameKey(q[1], q[2]), TRUE,
                               "none"), q[1])
         => MissesUnindexed(findByName(svc, store, now, q[1], q[2], "none"))

\* what clearProject leaves behind when it returns: the six indexes are
\* empty, and the entries of the other projects are where they were
AfterClearProject(projectId) ==
  /\ svc'.urlIndex = <<>> /\ svc'.nameIndex = <<>> /\ svc'.pathIndex = <<>>
  /\ store'.urlIndex = EmptyMap /\ store'.nameIndex = EmptyMap /\ store'.pathIndex = EmptyMap
  /\ \A id \in Ids :
       id[1] # projectId =>
         /\ MemValue(svc', KeyOf(id)) = MemValue(svc, KeyOf(id))
         /\ ObjGet(store'.apis, KeyOf(id)) = ObjGet(store.apis, KeyOf(id))

ClearProjectResets ==
  [][\A projectId \in Projects :
       ClearProject(projectId, "none") => AfterClearProject(projectId)]_vars

\* ------------------------------------------------------------------- C33

\* C33: after clearByUrl(url) returns true, the name index and the path
\* index are empty, in memory and in the disk document.
C33_ClearByUrlEmptiesNameAndPath ==
  [][\A url \in Urls :
       ClearByUrl(url, "none") /\ clearByUrl(svc, store, now, url, "none").result = TRUE
         => /\ svc'.nameIndex = <<>> /\ svc'.pathIndex = <<>>
            /\ store'.nameIndex = EmptyMap /\ store'.pathIndex = EmptyMap]_vars

\* ------------------------------------------------------------------- C34

\* the index entry clearByUrl(url) finds in the memory or the disk URL index
UrlTarget(url) ==
  ResolveIndex(svc, store, now, "urlIndex", getUrlKey(url), FALSE, "none").index

\* clearByUrl found target under url and returned: the entry of target and
\* the URL key are gone from both tiers, every other entry is where it was,
\* and the lookups for the entry return absent
ClearedByUrl(url, target, entry) ==
  /\ MemValue(svc', getApiKey(target.projectId, target.apiId)) = Undefined
  /\ ~ObjHas(store'.apis, getApiKey(target.projectId, target.apiId))
  /\ LruIndex(svc'.urlIndex, getUrlKey(url)) = 0
  /\ MapGet(store'.urlIndex, getUrlKey(url)) = Undefined
  /\ \A k \in Keys \ {getApiKey(target.projectId, target.apiId)} :
       /\ MemValue(svc', k) = MemValue(svc, k)
       /\ ObjGet(store'.apis, k) = ObjGet(store.apis, k)
  /\ getApi(svc', store', now', target.projectId, target.apiId, "none").result = Undefined
  /\ findByUrl(svc', store', now', url, "none").result = Undefined
  /\ entry # Undefined =>
       /\ findByName(svc', store', now', target.projectId, entry.metadata.name,
                     "none").result # Hit(entry, "memory")
       /\ findByName(svc', store', now', target.projectId, entry.metadata.name,
                     "none").result # Hit(entry, "disk")
       /\ findByPath(svc', store', now', target.projectId, entry.metadata.method,
                     entry.metadata.path, "none").result = Undefined

\* the entry kept under the key of target, in memory or else on disk
StoredEntry(target) ==
  IF InMemory(getApiKey(target.projectId, target.apiId)) # Undefined
  THEN InMemory(getApiKey(target.projectId, target.apiId))
  ELSE ObjGet(store.apis, getApiKey(target.projectId, target.apiId))

RemovedKeys(s, d, r) ==
  {k \in Keys : \/ MemValue(s, k) # Undefined /\ MemValue(r.svc, k) = Undefined
                \/ ObjHas(d.apis, k) /\ ~ObjHas(r.store.apis, k)}

\* C35: clearProject(projectId) returns the number of entries of the project
\* that it removed from the cache, an entry held only on disk included.
C35_ClearProjectCountsBothTiers ==
  \A projectId \in Projects :
    clearProject(svc, store, now, projectId, "none").result =
      Cardinality(RemovedKeys(svc, store, clearProject(svc, store, now, projectId, "none")))

\* ------------------------------------------------------------------- C36

\* spellings of a name that differ in letter case or in blanks around it
NameVariants(name) ==
  {name, toLowerCase(name), toUpperCase(name), <<" ">> \o name, name \o <<" ">>,
   <<" ", " ">> \o toUpperCase(name) \o <<" ">>}

\* spellings of a method that differ in letter case
MethodVariants(method) ==
  {method, toLowerCase(method), toUpperCase(method),
   [i \in 1..Len(method) |-> IF i % 2 = 0 THEN LowerChar(method[i]) ELSE UpperChar(method[i])]}

\* the keys of each of the four dimensions, over the projects, interfaces,
\* links, names, methods and paths of the fetched APIs
ApiKeys == {getApiKey(Fetched[i].projectId, Fetched[i].apiId) : i \in 1..Len(Fetched)}
UrlKeys == {getUrlKey(Fetched[i].url) : i \in 1..Len(Fetched)}
NameKeys ==
  UNION {{getNameKey(Fetched[i].projectId, v) : v \in NameVariants(Fetched[i].name)} :
           i \in 1..Len(Fetched)}
PathKeys ==
  UNION {{getPathKey(Fetched[i].projectId, m, Fetched[i].path) :
            m \in MethodVariants(Fetched[i].method)} : i \in 1..Len(Fetched)}

\* C36: findByName finds the same entry by any name that differs from the
\* stored name only in letter case or in leading or trailing whitespace;
\* findByPath finds the same entry by the method in any letter case and takes
\* the path verbatim, so that a path with an added trailing slash is a miss;
\* the keys of the four dimensions never collide.
C36_KeyNormalization ==
  /\ \A i \in 1..Len(Fetched) :
       /\ \A v \in NameVariants(Fetched[i].name) :
            findByName(svc, store, now, Fetched[i].projectId, v, "none").result =
              findByName(svc, store, now, Fetched[i].projectId, Fetched[i].name, "none").result
       /\ \A m \in MethodVariants(Fetched[i].method) :
            findByPath(svc, store, now, Fetched[i].projectId, m, Fetched[i].path,
                       "none").result =
              findByPath(svc, store, now, Fetched[i].projectId, Fetched[i].method,
                         Fetched[i].path, "none").result
       /\ findByPath(svc, store, now, Fetched[i].projectId, Fetched[i].method,
                     Fetched[i].path \o <<"/">>, "none").result = Undefined
  /\ ApiKeys \cap UrlKeys = {} /\ ApiKeys \cap NameKeys = {} /\ ApiKeys \cap PathKeys = {}
  /\ UrlKeys \cap NameKeys = {} /\ UrlKeys \cap PathKeys = {} /\ NameKeys \cap PathKeys = {}

\* An entry named 'User' with path GET /u is held on disk only: it is found
\* under ' uSER ' and under get /u, and not under GET /u/.
C36_Witness ==
  /\ \A i \in 1..Len(svc.memoryCache) : svc.memoryCache[i].value.metadata.name # <<"U", "s", "e", "r">>
  /\ findByName(svc, store, now, P1, <<" ", "u", "S", "E", "R", " ">>, "none").result # Undefined
  /\ findByName(svc, store, now, P1, <<" ", "u", "S", "E", "R", " ">>,
                "none").result.entry.metadata.name = <<"U", "s", "e", "r">>
  /\ findByPath(svc, store, now, P1, <<"g", "e", "t">>, <<"/", "u">>, "none").result # Undefined
  /\ findByPath(svc, store, now, P1, <<"G", "E", "T">>, <<"/", "u", "/">>,
                "none").result = Undefined

\* ------------------------------------------------------------------- C37

\* the lookup that returned r raised the sum of the counters by exactly 1
CountedOnce(r) == StatsTotal(r.svc) = StatsTotal(svc) + 1

\* C37: each call of getApi, findByUrl, findByName or findByPath on an
\* enabled cache increases memory.hits + memory.misses + disk.hits by
\* exactly 1.
C37_LookupCountedOnce ==
  svc.enabled =>
    /\ \A id \in Ids : CountedOnce(getApi(svc, store, now, id[1], id[2], "none"))
    /\ \A url \in Urls : CountedOnce(findByUrl(svc, store, now, url, "none"))
    /\ \A q \in NameQueries : CountedOnce(findByName(svc, store, now, q[1], q[2], "none"))
    /\ \A q \in PathQueries :
         CountedOnce(findByPath(svc, store, now, q[1], q[2], q[3], "none"))

\* ------------------------------------------------------------------- C38

\* C38: the stats snapshot reports memory.max as the configured maxSize and
\* disk.max as the configured persistentMaxSize, memory.size and disk.size
\* as the entry counts of the two tiers, and has a disk section exactly when
\* persistence is enabled.
C38_StatsSnapshot ==
  /\ getStats(svc, store).memory.max = DiskMaxSize
  /\ getStats(svc, store).memory.size = Len(svc.memoryCache)
  /\ (getStats(svc, store).persistent # Undefined) = svc.persistentEnabled
  /\ svc.persistentEnabled =>
       /\ getStats(svc, store).persistent.size = Len(store.apis)
       /\ getStats(svc, store).persistent.max = PersistentMaxSize

\* ------------------------------------------------------------------- C39

\* The HTTP transport with up to MaxClients SSE connections, which open,
\* close and post in every order.
InitSse == InitWith({TRUE}, {TRUE}, SseMaxSize, {})

NextSse ==
  \/ SseConnect
  \/ \E c \in 1..MaxClients : SseClose(c)
  \/ \E c \in 1..MaxClients : PostMessage(c)

SpecSse == InitSse /\ [][NextSse]_vars

\* C39: every message a connected client has POSTed to /messages was
\* handled by the transport of that client's own SSE connection, never by
\* the transport of another client or by a closed one.
C39_OwnTransport ==
  \A c \in 1..MaxClients : hist.handledBy[c] \subseteq {<<c, TRUE>>}

====
